---- MODULE Spec2Model ----
(***************************************************************************)
(* Soft-delete lifecycle engine, scope resolver and authorization engine   *)
(* of the task manager backend.                                            *)
(*                                                                         *)
(* The entity store is a map from document ids to the fields the plugin    *)
(* and the organization controller read and write.  Foreign keys and       *)
(* roles never change in the modelled operations and are given by Refs     *)
(* and RoleOf.                                                             *)
(***************************************************************************)
EXTENDS Integers, Sequences, FiniteSets, TLC

VARIABLES
  docs,   \* the document store: id -> [isDeleted, deletedAt, deletedBy, name, email]
  now,    \* the clock read by new Date()
  last    \* the last operation issued, its arguments and what the caller observed

vars == <<docs, now, last>>

----------------------------------------------------------------------------
(* Values *)

Null == "null"
Undefined == "undefined"

\* deletedAt: null; real timestamps are 1..MaxTime
NullDate == 0

\* the clock stops advancing at MaxTime
MaxTime == 2

PLATFORM_ORGANIZATION_ID == "o0"

----------------------------------------------------------------------------
(* The documents and their foreign keys *)

Refs ==
  [ o0 |-> [model |-> "Organization"],
    o1 |-> [model |-> "Organization"],
    o2 |-> [model |-> "Organization"],
    d0 |-> [model |-> "Department", organization |-> "o0"],
    d1 |-> [model |-> "Department", organization |-> "o1"],
    d2 |-> [model |-> "Department", organization |-> "o1"],
    d3 |-> [model |-> "Department", organization |-> "o2"],
    u0 |-> [model |-> "User", organization |-> "o0", department |-> "d0"],
    ua |-> [model |-> "User", organization |-> "o0", department |-> "d0"],
    u1 |-> [model |-> "User", organization |-> "o1", department |-> "d1"],
    u2 |-> [model |-> "User", organization |-> "o1", department |-> "d2"],
    u3 |-> [model |-> "User", organization |-> "o2", department |-> "d3"],
    t1 |-> [model |-> "BaseTask", organization |-> "o1", department |-> "d1",
            createdBy |-> "u1"],
    a1 |-> [model |-> "TaskActivity", task |-> "t1", createdBy |-> "u1"],
    c1 |-> [model |-> "TaskComment", task |-> "t1", createdBy |-> "u1"],
    c2 |-> [model |-> "TaskComment", task |-> "t1", parentComment |-> "c1",
            createdBy |-> "u2"],
    f1 |-> [model |-> "Attachment", attachedTo |-> "t1", organization |-> "o1"],
    f2 |-> [model |-> "Attachment", attachedTo |-> "a1", organization |-> "o1"],
    f3 |-> [model |-> "Attachment", attachedTo |-> "c1", organization |-> "o1"],
    d4 |-> [model |-> "Department", organization |-> "o1"],
    u4 |-> [model |-> "User", organization |-> "o1", department |-> "d1"],
    n1 |-> [model |-> "Notification", organization |-> "o1", isRead |-> TRUE],
    n2 |-> [model |-> "Notification", organization |-> "o1", isRead |-> FALSE],
    o3 |-> [model |-> "Organization"],
    o4 |-> [model |-> "Organization"],
    d5 |-> [model |-> "Department", organization |-> "o3"],
    d6 |-> [model |-> "Department", organization |-> "o4"],
    u5 |-> [model |-> "User", organization |-> "o3", department |-> "d5"],
    u6 |-> [model |-> "User", organization |-> "o4", department |-> "d6"] ]

DocIds == DOMAIN Refs

ModelOf(d) == Refs[d].model

IdsOf(model) == {d \in DocIds : ModelOf(d) = model}

\* the value of a path of a stored document that the operations never write
Field(d, path) == IF path \in DOMAIN Refs[d] THEN Refs[d][path] ELSE Undefined

RoleOf ==
  [ u0 |-> "SuperAdmin", ua |-> "Admin", u1 |-> "SuperAdmin", u2 |-> "User",
    u3 |-> "Manager", u5 |-> "SuperAdmin", u6 |-> "SuperAdmin" ]

\* the actor whose id an operation may record as deletedBy
ActorIds == {"u0"}

\* a freshly created document: the defaults of the fields the plugin adds
NewDoc(name, email) ==
  [isDeleted |-> FALSE, deletedAt |-> NullDate, deletedBy |-> Null,
   name |-> name, email |-> email]

InitialName ==
  [ o0 |-> "platform", o1 |-> "acme", o2 |-> "globex",
    d0 |-> "ops", d1 |-> "sales", d2 |-> "support", d3 |-> "sales" ]

InitialEmail ==
  [ o0 |-> "root@platform", o1 |-> "info@acme", o2 |-> "info@globex",
    u0 |-> "root@platform", ua |-> "admin@platform", u1 |-> "ann@acme",
    u2 |-> "bob@acme", u3 |-> "cy@globex" ]

InitialDoc(d) ==
  NewDoc(IF d \in DOMAIN InitialName THEN InitialName[d] ELSE "",
         IF d \in DOMAIN InitialEmail THEN InitialEmail[d] ELSE "")

----------------------------------------------------------------------------
(* Queries: src/backend/models/plugins/softDelete.js, QUERY FILTERING *)

\* a query filter is a function from paths to values; the isDeleted clause is
\* one of "true", "false", "ne_true"; "_id_ne" stands for _id: { $ne: v }
MatchesClause(store, d, path, v) ==
  CASE path = "isDeleted" ->
         IF v = "true" THEN store[d].isDeleted ELSE ~store[d].isDeleted
    [] path = "_id" -> d = v
    [] path = "_id_ne" -> d # v
    [] path = "name" -> store[d].name = v
    [] path = "email" -> store[d].email = v
    [] OTHER -> Field(d, path) = v

\* the documents of a collection a filter selects
Matching(store, model, query) ==
  {d \in DOMAIN store :
     /\ ModelOf(d) = model
     /\ \A path \in DOMAIN query : MatchesClause(store, d, path, query[path])}

NoFilter == <<>>

\* excludeDeleted with the where() dropped
excludeDeletedOff(query, withDeleted) == query

\* the pre hook of find, findOne, countDocuments, updateOne, updateMany ...
excludeDeleted(query, withDeleted) ==
  IF withDeleted \/ "isDeleted" \in DOMAIN query
    THEN query
    ELSE ("isDeleted" :> "false") @@ query

\* Model.find / findOne / countDocuments: the documents the query matches
find(store, model, query, withDeleted) ==
  Matching(store, model, excludeDeleted(query, withDeleted))

\* schema.statics.findWithDeleted
findWithDeleted(store, model, conditions) ==
  find(store, model, conditions, FALSE)

\* schema.statics.findDeleted
findDeleted(store, model, conditions) ==
  find(store, model, ("isDeleted" :> "true") @@ conditions, FALSE)

\* the fields an update document sets
ApplyUpdate(doc, updateData) ==
  [path \in DOMAIN doc |->
     IF path \in DOMAIN updateData THEN updateData[path] ELSE doc[path]]

\* Model.updateMany / findOneAndUpdate behind the excludeDeleted hook
updateMany(store, model, query, updateData) ==
  LET matched == find(store, model, query, FALSE)
  IN [d \in DOMAIN store |->
        IF d \in matched THEN ApplyUpdate(store[d], updateData) ELSE store[d]]

----------------------------------------------------------------------------
(* Cascade tables: the cascadeDelete option each schema passes to the plugin *)

CascadeDelete(model) ==
  CASE model = "Organization" ->
         << [model |-> "Department", field |-> "organization", deletedBy |-> TRUE],
            [model |-> "User", field |-> "organization", deletedBy |-> TRUE],
            [model |-> "BaseTask", field |-> "organization", deletedBy |-> TRUE],
            [model |-> "Material", field |-> "organization", deletedBy |-> TRUE],
            [model |-> "Vendor", field |-> "organization", deletedBy |-> TRUE],
            [model |-> "Notification", field |-> "organization", deletedBy |-> TRUE] >>
    [] model = "Department" ->
         << [model |-> "User", field |-> "department", deletedBy |-> TRUE],
            [model |-> "BaseTask", field |-> "department", deletedBy |-> TRUE] >>
    [] model = "BaseTask" ->
         << [model |-> "TaskActivity", field |-> "task", deletedBy |-> TRUE],
            [model |-> "TaskComment", field |-> "task", deletedBy |-> TRUE],
            [model |-> "Attachment", field |-> "attachedTo", deletedBy |-> TRUE] >>
    [] model = "TaskActivity" ->
         << [model |-> "Attachment", field |-> "attachedTo", deletedBy |-> TRUE] >>
    [] model = "TaskComment" ->
         << [model |-> "TaskComment", field |-> "parentComment", deletedBy |-> TRUE],
            [model |-> "Attachment", field |-> "attachedTo", deletedBy |-> TRUE] >>
    [] OTHER -> << >>

\* cascadeConfig.<key> read as a condition: an absent key is undefined
Option(cascadeConfig, key) ==
  key \in DOMAIN cascadeConfig /\ cascadeConfig[key] = TRUE

----------------------------------------------------------------------------
(* Documents in memory *)

\* A document as a query returns it.  isDeleted, deletedAt and deletedBy are
\* select:false: unless the query selects them (sel) they are undefined in
\* memory, which the three fields below stand for with falsy values.
Load(store, d, sel) ==
  [_id |-> d, sel |-> sel, modified |-> {},
   isDeleted |-> IF sel THEN store[d].isDeleted ELSE FALSE,
   deletedAt |-> IF sel THEN store[d].deletedAt ELSE NullDate,
   deletedBy |-> IF sel THEN store[d].deletedBy ELSE Null]

\* doc.path = v; the path is marked modified unless it holds v already
Assign(doc, path, v) ==
  IF doc.sel /\ doc[path] = v /\ path \notin doc.modified
    THEN doc
    ELSE [doc EXCEPT ![path] = v, !.modified = @ \cup {path}]

isModified(doc, path) == path \in doc.modified

----------------------------------------------------------------------------
(* Cascade: executeCascadeDelete *)

RECURSIVE executeCascadeDelete(_, _, _, _, _)
RECURSIVE CascadeRelated(_, _, _, _)
RECURSIVE cascadeStep(_, _, _, _, _)

\* for (const relatedDoc of relatedDocs) await executeCascadeDelete(relatedDoc)
CascadeRelated(store, cascadeDelete, relatedDocs, t) ==
  IF relatedDocs = {} THEN store
  ELSE LET r == CHOOSE x \in relatedDocs : TRUE
       IN CascadeRelated(
            executeCascadeDelete(store, cascadeDelete, Load(store, r, FALSE), t, 1),
            cascadeDelete, relatedDocs \ {r}, t)

\* the try block for the i-th entry of cascadeDelete; t is what new Date()
\* returns during the cascade
cascadeStep(store, cascadeDelete, parentDoc, t, i) ==
  LET cascadeConfig == cascadeDelete[i]
      query == (cascadeConfig.field :> parentDoc._id)
      updateData ==
        IF Option(cascadeConfig, "propagateDeletedBy")
          THEN [isDeleted |-> TRUE, deletedAt |-> t,
                deletedBy |-> parentDoc.deletedBy]
          ELSE [isDeleted |-> TRUE, deletedAt |-> t]
      updated == updateMany(store, cascadeConfig.model, query, updateData)
      relatedDocs ==
        IF Option(cascadeConfig, "cascade")
          THEN find(updated, cascadeConfig.model, query, FALSE)
          ELSE {}
  IN CascadeRelated(updated, cascadeDelete, relatedDocs, t)

\* the loop over the parent schema's cascadeDelete from its i-th entry on
executeCascadeDelete(store, cascadeDelete, parentDoc, t, i) ==
  IF i > Len(cascadeDelete) THEN store
  ELSE executeCascadeDelete(
         cascadeStep(store, cascadeDelete, parentDoc, t, i),
         cascadeDelete, parentDoc, t, i + 1)

----------------------------------------------------------------------------
(* Saving a document: the plugin's pre("save") hooks, then the write *)

\* first hook: auto-manage deletedAt when isDeleted changes
preSaveDeletedAt(doc, t) ==
  IF isModified(doc, "isDeleted")
    THEN IF doc.isDeleted /\ doc.deletedAt = NullDate
           THEN Assign(doc, "deletedAt", t)
           ELSE IF ~doc.isDeleted
                  THEN Assign(Assign(doc, "deletedAt", NullDate), "deletedBy", Null)
                  ELSE doc
    ELSE doc

\* a schema whose second hook was never registered
preSaveCascadeOff(store, doc, t) == store

\* second hook, registered when the schema declares cascadeDelete entries
preSaveCascade(store, doc, t) ==
  IF Len(CascadeDelete(ModelOf(doc._id))) > 0
     /\ isModified(doc, "isDeleted") /\ doc.isDeleted
    THEN executeCascadeDelete(store, CascadeDelete(ModelOf(doc._id)), doc, t, 1)
    ELSE store

\* $set of the modified paths on the stored document
WriteModified(store, doc) ==
  [store EXCEPT ![doc._id] =
     [path \in DOMAIN @ |->
        IF path \in doc.modified THEN doc[path] ELSE @[path]]]

\* doc.save({ session }): the hooks run in the order they were registered and
\* before the write; a session that is not a ClientSession makes the write
\* reject.  tc is the clock during the cascade.
save(store, doc, session, t, tc) ==
  LET hooked == preSaveDeletedAt(doc, t)
      cascaded == preSaveCascade(store, hooked, tc)
  IN IF session = Null
       THEN [ok |-> TRUE, store |-> WriteModified(cascaded, hooked)]
       ELSE [ok |-> FALSE, store |-> cascaded]

----------------------------------------------------------------------------
(* Instance methods *)

\* schema.methods.softDelete
softDelete(store, doc, deletedBy, session, t, tc) ==
  LET stamped == Assign(Assign(doc, "isDeleted", TRUE), "deletedAt", t)
      signed == IF deletedBy # Null
                  THEN Assign(stamped, "deletedBy", deletedBy)
                  ELSE stamped
  IN save(store, signed, session, t, tc)

\* schema.methods.restore
restore(store, doc, session, t) ==
  save(store,
       Assign(Assign(Assign(doc, "isDeleted", FALSE), "deletedAt", NullDate),
              "deletedBy", Null),
       session, t, t)

----------------------------------------------------------------------------
(* Static methods *)

\* updateData of softDeleteById / softDeleteMany
SoftDeleteUpdate(deletedBy, t) ==
  IF deletedBy # Null
    THEN [isDeleted |-> TRUE, deletedAt |-> t, deletedBy |-> deletedBy]
    ELSE [isDeleted |-> TRUE, deletedAt |-> t]

RestoreUpdate == [isDeleted |-> FALSE, deletedAt |-> NullDate, deletedBy |-> Null]

\* schema.statics.softDeleteById
softDeleteById(store, id, deletedBy, t) ==
  updateMany(store, ModelOf(id), ("_id" :> id) @@ ("isDeleted" :> "false"),
             SoftDeleteUpdate(deletedBy, t))

\* schema.statics.softDeleteMany: the definition at the end of the plugin
\* replaces the cascading wrapper installed earlier
softDeleteMany(store, model, filter, deletedBy, t) ==
  updateMany(store, model, ("isDeleted" :> "false") @@ filter,
             SoftDeleteUpdate(deletedBy, t))

\* restoreById that also clears the tombstones of the documents referring to
\* the restored one
restoreByIdWithChildren(store, id) ==
  [d \in DOMAIN store |->
     IF store[id].isDeleted
        /\ (d = id \/ \E path \in DOMAIN Refs[d] : Refs[d][path] = id)
       THEN [store[d] EXCEPT !.isDeleted = FALSE, !.deletedAt = NullDate,
                             !.deletedBy = Null]
       ELSE store[d]]

\* schema.statics.restoreById
restoreById(store, id) ==
  updateMany(store, ModelOf(id), ("_id" :> id) @@ ("isDeleted" :> "true"),
             RestoreUpdate)

\* schema.statics.restoreMany
restoreMany(store, model, filter) ==
  updateMany(store, model, ("isDeleted" :> "true") @@ filter, RestoreUpdate)

----------------------------------------------------------------------------
(* The lifecycle operations as steps on the store *)

\* how a caller obtained the document it calls an instance method on:
\*   "find"        a default query: only documents that are not tombstoned
\*   "findDeleted" a query with isDeleted: true
\*   "select"      .withDeleted().select("+isDeleted +deletedAt +deletedBy")
LoadModes == {"find", "findDeleted", "select"}

Loadable(store, d, mode) ==
  CASE mode = "find" -> d \in find(store, ModelOf(d), ("_id" :> d), FALSE)
    [] mode = "findDeleted" -> d \in findDeleted(store, ModelOf(d), ("_id" :> d))
    [] OTHER -> d \in find(store, ModelOf(d), ("_id" :> d), TRUE)

\* the values new Date() can return later in the same operation
Later == {t \in {now, now + 1} : t <= MaxTime}

CascadeTimes(d) == IF Len(CascadeDelete(ModelOf(d))) > 0 THEN Later ELSE {now}

InitDocs(ids) == [d \in ids |-> InitialDoc(d)]

Tick ==
  /\ now < MaxTime
  /\ now' = now + 1
  /\ last' = [op |-> "tick"]
  /\ UNCHANGED docs

\* doc = await Model.find...; await doc.softDelete(deletedBy); the caller sees
\* a rejection only when save() rejects
DocSoftDelete(d, deletedBy, mode) ==
  /\ Loadable(docs, d, mode)
  /\ \E tc \in CascadeTimes(d) :
       \E r \in {softDelete(docs, Load(docs, d, mode = "select"), deletedBy,
                            Null, now, tc)} :
         /\ docs' = r.store
         /\ now' = tc
         /\ last' = [op |-> "softDelete", id |-> d, rejected |-> ~r.ok]

\* doc = await Model.find...; await doc.restore()
DocRestore(d, mode) ==
  /\ Loadable(docs, d, mode)
  /\ \E r \in {restore(docs, Load(docs, d, mode = "select"), Null, now)} :
       /\ docs' = r.store
       /\ last' = [op |-> "restore", id |-> d, rejected |-> ~r.ok]
  /\ UNCHANGED now

\* Model.softDeleteById(id, { deletedBy }): resolves to the updated document,
\* or to null when the filter matched none
SoftDeleteById(d, deletedBy) ==
  /\ docs' = softDeleteById(docs, d, deletedBy, now)
  /\ last' = [op |-> "softDeleteById", id |-> d, found |-> ~docs[d].isDeleted,
              rejected |-> FALSE]
  /\ UNCHANGED now

\* Model.softDeleteMany(filter, { deletedBy })
SoftDeleteMany(model, filter, deletedBy) ==
  /\ docs' = softDeleteMany(docs, model, filter, deletedBy, now)
  /\ last' = [op |-> "softDeleteMany", model |-> model, filter |-> filter]
  /\ UNCHANGED now

\* Model.restoreById(id)
RestoreById(d) ==
  /\ docs' = restoreById(docs, d)
  /\ last' = [op |-> "restoreById", id |-> d, found |-> docs[d].isDeleted,
              rejected |-> FALSE]
  /\ UNCHANGED now

\* Model.restoreMany(filter)
RestoreMany(model, filter) ==
  /\ docs' = restoreMany(docs, model, filter)
  /\ last' = [op |-> "restoreMany", model |-> model, filter |-> filter]
  /\ UNCHANGED now

\* the documents of the lifecycle specification
LifecycleDocs == {"o1", "d1", "u1"}

Models(store) == {ModelOf(d) : d \in DOMAIN store}

\* the filters the bulk operations are called with
ManyFilters == {NoFilter, ("organization" :> "o1")}

DeletedByArgs == ActorIds \cup {Null}

Init ==
  /\ docs = InitDocs(LifecycleDocs)
  /\ now = 1
  /\ last = [op |-> "init"]

NextDocSoftDelete ==
  \E d \in DOMAIN docs, deletedBy \in DeletedByArgs, mode \in LoadModes :
    DocSoftDelete(d, deletedBy, mode)

NextDocRestore ==
  \E d \in DOMAIN docs, mode \in LoadModes : DocRestore(d, mode)

NextSoftDeleteById ==
  \E d \in DOMAIN docs, deletedBy \in DeletedByArgs : SoftDeleteById(d, deletedBy)

NextSoftDeleteMany ==
  \E model \in Models(docs), filter \in ManyFilters, deletedBy \in DeletedByArgs :
    SoftDeleteMany(model, filter, deletedBy)

NextRestoreById == \E d \in DOMAIN docs : RestoreById(d)

NextRestoreMany ==
  \E model \in Models(docs), filter \in ManyFilters : RestoreMany(model, filter)

Next ==
  \/ Tick
  \/ NextDocSoftDelete
  \/ NextDocRestore
  \/ NextSoftDeleteById
  \/ NextSoftDeleteMany
  \/ NextRestoreById
  \/ NextRestoreMany

Spec == Init /\ [][Next]_vars

----------------------------------------------------------------------------
(* C1 *)

Tombstoned(store, d) == store[d].isDeleted

\* C1: in every reachable state every document has isDeleted = false exactly
\* when deletedAt = null and exactly when deletedBy = null.
TombstoneInvariant ==
  \A d \in DOMAIN docs :
    /\ (docs[d].isDeleted = FALSE) <=> (docs[d].deletedAt = NullDate)
    /\ (docs[d].isDeleted = FALSE) <=> (docs[d].deletedBy = Null)

----------------------------------------------------------------------------
(* Authorization: src/backend/middleware/authorization.js *)

AUTHORIZATION_MATRIX ==
  [ SuperAdmin |->
      [ own |-> {"read", "write", "delete"},
        ownDept |-> {"read", "write", "delete"},
        crossDept |-> {"read", "write", "delete"},
        crossOrg |-> {"read", "write", "delete"},
        resources |->
          [ users |-> {"create", "read", "update", "delete", "restore"},
            departments |-> {"create", "read", "update", "delete", "restore"},
            organizations |-> {"create", "read", "update", "delete", "restore"},
            tasks |-> {"create", "read", "update", "delete", "restore"},
            materials |-> {"create", "read", "update", "delete", "restore"},
            vendors |-> {"create", "read", "update", "delete", "restore"},
            notifications |-> {"read", "update", "delete"},
            attachments |-> {"create", "read", "delete"} ] ],
    Admin |->
      [ own |-> {"read", "write", "delete"},
        ownDept |-> {"read", "write", "delete"},
        crossDept |-> {"read"},
        crossOrg |-> {},
        resources |->
          [ users |-> {"create", "read", "update", "delete"},
            departments |-> {"read"},
            organizations |-> {"read"},
            tasks |-> {"create", "read", "update", "delete"},
            materials |-> {"create", "read", "update", "delete"},
            vendors |-> {"create", "read", "update", "delete"},
            notifications |-> {"read", "update", "delete"},
            attachments |-> {"create", "read", "delete"} ] ],
    Manager |->
      [ own |-> {"read", "write", "delete"},
        ownDept |-> {"read", "write"},
        crossDept |-> {"read"},
        crossOrg |-> {},
        resources |->
          [ users |-> {"read", "update"},
            departments |-> {"read"},
            organizations |-> {"read"},
            tasks |-> {"create", "read", "update", "delete"},
            materials |-> {"create", "read", "update"},
            vendors |-> {"read", "update"},
            notifications |-> {"read", "update"},
            attachments |-> {"create", "read", "delete"} ] ],
    User |->
      [ own |-> {"read", "write"},
        ownDept |-> {"read"},
        crossDept |-> {},
        crossOrg |-> {},
        resources |->
          [ users |-> {"read"},
            departments |-> {"read"},
            organizations |-> {"read"},
            tasks |-> {"create", "read", "update"},
            materials |-> {"read"},
            vendors |-> {"read"},
            notifications |-> {"read", "update"},
            attachments |-> {"create", "read"} ] ] ]

\* targetResource = null: no target is handed to the check
NoTarget ==
  [_id |-> Undefined, organization |-> Undefined, department |-> Undefined,
   createdBy |-> Undefined]

\* the ids determineScopeLevel extracts from the target, by resource type
TargetIds(targetResource, resourceType) ==
  CASE resourceType = "user" ->
         [user |-> targetResource._id, org |-> targetResource.organization,
          dept |-> targetResource.department]
    [] resourceType = "organization" ->
         [user |-> Undefined, org |-> targetResource._id, dept |-> Undefined]
    [] resourceType = "department" ->
         [user |-> Undefined, org |-> targetResource.organization,
          dept |-> targetResource._id]
    [] OTHER ->
         [user |-> targetResource.createdBy, org |-> targetResource.organization,
          dept |-> targetResource.department]

\* determineScopeLevel
determineScopeLevel(user, targetResource, resourceType) ==
  LET ids == TargetIds(targetResource, resourceType)
      isPlatformAdmin == user.organization = PLATFORM_ORGANIZATION_ID
  IN IF ids.user # Undefined /\ ids.user = user._id THEN "own"
     ELSE IF ids.org # Undefined /\ ids.org # user.organization
       THEN IF isPlatformAdmin THEN "crossOrg" ELSE Null
     ELSE IF ids.dept # Undefined /\ ids.dept # user.department THEN "crossDept"
     ELSE IF ids.dept # Undefined /\ ids.dept = user.department THEN "ownDept"
     ELSE IF ids.org # Undefined /\ ids.org = user.organization THEN "ownDept"
     ELSE Null

\* actionScopeMap with update mapped to the read bucket
actionScopeMapUpdateRead ==
  [ create |-> "write", read |-> "read", update |-> "read",
    delete |-> "delete", restore |-> "write" ]

\* actionScopeMap
actionScopeMap ==
  [ create |-> "write", read |-> "read", update |-> "write",
    delete |-> "delete", restore |-> "write" ]

\* hasPermission
hasPermission(user, action, resource, targetResource, resourceType) ==
  IF user.role \notin DOMAIN AUTHORIZATION_MATRIX THEN FALSE
  ELSE
    LET rolePermissions == AUTHORIZATION_MATRIX[user.role]
    IN IF resource \notin DOMAIN rolePermissions.resources THEN FALSE
       ELSE IF action \notin rolePermissions.resources[resource] THEN FALSE
       ELSE IF targetResource = NoTarget THEN TRUE
       ELSE
         LET scopeLevel ==
               determineScopeLevel(user, targetResource,
                 IF resourceType # Null THEN resourceType ELSE resource)
             requiredScopePermission ==
               IF action \in DOMAIN actionScopeMap
                 THEN actionScopeMap[action] ELSE action
         IN IF scopeLevel = Null THEN FALSE
            ELSE requiredScopePermission \in rolePermissions[scopeLevel]

\* authorize with the allowSelf branch taken for every req.params.id
authorizeSelfAny(action, resource, options, req) ==
  IF options.allowSelf
    THEN [next |-> TRUE, error |-> Null, message |-> <<>>]
  ELSE IF hasPermission(req.user, action, resource, options.targetResource,
                        options.resourceType)
    THEN [next |-> TRUE, error |-> Null, message |-> <<>>]
    ELSE [next |-> FALSE, error |-> "forbidden",
          message |-> <<"Insufficient permissions to", action, resource>>]

\* the middleware authorize(action, resource, options) builds, run on a request
\* whose req.user is set: whether next() is called, else the CustomError thrown
authorize(action, resource, options, req) ==
  IF options.allowSelf /\ req.params.id = req.user._id
    THEN [next |-> TRUE, error |-> Null, message |-> <<>>]
  ELSE IF hasPermission(req.user, action, resource, options.targetResource,
                        options.resourceType)
    THEN [next |-> TRUE, error |-> Null, message |-> <<>>]
    ELSE [next |-> FALSE, error |-> "forbidden",
          message |-> <<"Insufficient permissions to", action, resource>>]

----------------------------------------------------------------------------
(* Authorization requests *)

Roles == {"SuperAdmin", "Admin", "Manager", "User"}

\* a role outside the matrix, and a user document without a role
RoleValues == Roles \cup {"Guest", Undefined}

Actions == {"create", "read", "update", "delete", "restore"}

Resources ==
  {"users", "departments", "organizations", "tasks", "materials", "vendors",
   "notifications", "attachments", "reports"}

AuthUsers ==
  [_id : {"u1"}, organization : {PLATFORM_ORGANIZATION_ID, "o1"},
   department : {"d1"}, role : RoleValues]

TargetOrgs == {Undefined, PLATFORM_ORGANIZATION_ID, "o1", "o2"}

\* the targets handed to the check, with the resourceType option they come
\* with; a path the resolver does not read for that type is left undefined
TypedTargets ==
  ([resourceType : {"user"},
    target : [_id : {"u1", "u2"}, organization : TargetOrgs,
              department : {Undefined, "d1", "d2"}, createdBy : {Undefined}]])
  \cup
  ([resourceType : {"organization"},
    target : [_id : {PLATFORM_ORGANIZATION_ID, "o1", "o2"},
              organization : {Undefined}, department : {Undefined},
              createdBy : {Undefined}]])
  \cup
  ([resourceType : {"department"},
    target : [_id : {"d1", "d2"}, organization : TargetOrgs,
              department : {Undefined}, createdBy : {Undefined}]])
  \cup
  ([resourceType : {Null},
    target : [_id : {"t1"}, organization : TargetOrgs,
              department : {Undefined, "d1", "d2"},
              createdBy : {Undefined, "u1", "u2"}]])
  \cup
  {[resourceType |-> Null, target |-> NoTarget]}

SelfOptions ==
  {[allowSelf |-> FALSE, id |-> "u1"], [allowSelf |-> TRUE, id |-> "u1"],
   [allowSelf |-> TRUE, id |-> "u2"]}

AuthRequests ==
  {[op |-> "request", user |-> u, action |-> a, resource |-> r,
    resourceType |-> tt.resourceType, target |-> tt.target,
    allowSelf |-> so.allowSelf, id |-> so.id] :
     u \in AuthUsers, a \in Actions, r \in Resources, tt \in TypedTargets,
     so \in SelfOptions}

InitAuthz ==
  /\ docs = InitDocs(LifecycleDocs)
  /\ now = 1
  /\ last \in AuthRequests

\* determineScopeLevel(user, targetResource, resourceType || resource)
ResolveScope ==
  /\ last.op = "request"
  /\ last.target # NoTarget
  /\ last' = [last EXCEPT !.op = "determineScopeLevel"] @@
             [scope |-> determineScopeLevel(last.user, last.target,
                 IF last.resourceType # Null THEN last.resourceType
                                            ELSE last.resource)]
  /\ UNCHANGED <<docs, now>>

\* hasPermission(user, action, resource, targetResource, resourceType)
CheckPermission ==
  /\ last.op = "request"
  /\ last' = [last EXCEPT !.op = "hasPermission"] @@
             [granted |-> hasPermission(last.user, last.action, last.resource,
                                        last.target, last.resourceType)]
  /\ UNCHANGED <<docs, now>>

\* a request through authorize(action, resource, { getTargetResource,
\* resourceType, allowSelf })
Authorize ==
  /\ last.op = "request"
  /\ last' = [last EXCEPT !.op = "authorize"] @@
             authorize(last.action, last.resource,
                       [allowSelf |-> last.allowSelf,
                        targetResource |-> last.target,
                        resourceType |-> last.resourceType],
                       [user |-> last.user, params |-> [id |-> last.id]])
  /\ UNCHANGED <<docs, now>>

NextAuthz == ResolveScope \/ CheckPermission \/ Authorize

SpecAuthz == InitAuthz /\ [][NextAuthz]_vars

----------------------------------------------------------------------------
(* C2 - C5 *)

\* the organization of the target of the last authorization request, as the
\* resolver reads it for the request's resource type
TargetOrg ==
  TargetIds(last.target,
            IF last.resourceType # Null THEN last.resourceType
                                       ELSE last.resource).org

\* a request by an actor outside the Platform organization on a target of
\* another organization, the target not being the actor's own user document
CrossTenantRequest ==
  /\ last.target # NoTarget
  /\ ~(last.resourceType = "user" /\ last.target._id = last.user._id)
  /\ last.user.organization # PLATFORM_ORGANIZATION_ID
  /\ TargetOrg # Undefined
  /\ TargetOrg # last.user.organization

UnknownRoleDenied ==
  last.op \in {"hasPermission", "authorize"} /\ last.user.role \notin Roles =>
    /\ last.op = "hasPermission" => ~last.granted
    /\ last.op = "authorize" => ~last.next

\* the role x scope table of the authorization matrix
ScopeTable ==
  [ SuperAdmin |-> [own |-> {"read", "write", "delete"},
                    ownDept |-> {"read", "write", "delete"},
                    crossDept |-> {"read", "write", "delete"},
                    crossOrg |-> {"read", "write", "delete"}],
    Admin |-> [own |-> {"read", "write", "delete"},
               ownDept |-> {"read", "write", "delete"},
               crossDept |-> {"read"}, crossOrg |-> {}],
    Manager |-> [own |-> {"read", "write", "delete"},
                 ownDept |-> {"read", "write"},
                 crossDept |-> {"read"}, crossOrg |-> {}],
    User |-> [own |-> {"read", "write"}, ownDept |-> {"read"},
              crossDept |-> {}, crossOrg |-> {}] ]

\* create -> write, read -> read, update -> write, delete -> delete,
\* restore -> write
Bucket(action) ==
  CASE action = "read" -> "read"
    [] action = "delete" -> "delete"
    [] OTHER -> "write"

\* the action is listed for the resource kind in the role's resources matrix
ListedInResources(role, action, resource) ==
  /\ role \in Roles
  /\ resource \in DOMAIN AUTHORIZATION_MATRIX[role].resources
  /\ action \in AUTHORIZATION_MATRIX[role].resources[resource]

\* the scope the resolver gives for the last request
ResolvedScope ==
  determineScopeLevel(last.user, last.target,
    IF last.resourceType # Null THEN last.resourceType ELSE last.resource)

----------------------------------------------------------------------------
(* Queries against the store *)

\* the query operations the plugin hooks excludeDeleted on and that the
\* store's callers issue
QueryMethods == {"find", "findOne", "countDocuments", "updateOne", "updateMany"}

IsDeletedClauses == {"true", "false", "ne_true"}

\* filters with and without an explicit isDeleted clause
QueryFilters ==
  ManyFilters \cup
  {("isDeleted" :> c) @@ f : c \in IsDeletedClauses, f \in ManyFilters}

\* Model.<method>(filter), with .withDeleted() when withDeleted; an update
\* issued this way writes paths outside the tombstone fields
Query(method, model, filter, withDeleted) ==
  /\ last' = [op |-> method, model |-> model, query |-> filter,
              withDeleted |-> withDeleted,
              matched |-> find(docs, model, filter, withDeleted)]
  /\ UNCHANGED <<docs, now>>

\* Model.findWithDeleted(conditions)
FindWithDeleted(model, conditions) ==
  /\ last' = [op |-> "findWithDeleted", model |-> model, query |-> conditions,
              withDeleted |-> FALSE,
              matched |-> findWithDeleted(docs, model, conditions)]
  /\ UNCHANGED <<docs, now>>

\* Model.findDeleted(conditions)
FindDeleted(model, conditions) ==
  /\ last' = [op |-> "findDeleted", model |-> model, query |-> conditions,
              withDeleted |-> FALSE,
              matched |-> findDeleted(docs, model, conditions)]
  /\ UNCHANGED <<docs, now>>

NextQuery ==
  \E method \in QueryMethods, model \in Models(docs), filter \in QueryFilters,
     withDeleted \in BOOLEAN :
    Query(method, model, filter, withDeleted)

NextFindWithDeleted ==
  \E model \in Models(docs), conditions \in ManyFilters :
    FindWithDeleted(model, conditions)

NextFindDeleted ==
  \E model \in Models(docs), conditions \in ManyFilters :
    FindDeleted(model, conditions)

NextStore ==
  \/ NextSoftDeleteById
  \/ NextRestoreById
  \/ NextQuery
  \/ NextFindWithDeleted
  \/ NextFindDeleted

SpecQuery == Init /\ [][NextStore]_vars

----------------------------------------------------------------------------
(* C7 *)

\* the last operation was a hooked query whose filter has no isDeleted clause
PlainQuery ==
  /\ last.op \in QueryMethods
  /\ "isDeleted" \notin DOMAIN last.query

\* C7: a find / findOne / countDocuments / updateOne / updateMany query with
\* no isDeleted clause matches, without withDeleted, exactly the documents
\* satisfying its filter that are not tombstoned, and with withDeleted all
\* documents satisfying its filter, tombstoned or not.
DefaultExclusion ==
  PlainQuery =>
    LET satisfying == Matching(docs, last.model, last.query)
    IN IF last.withDeleted
         THEN last.matched = satisfying
         ELSE last.matched = {d \in satisfying : ~Tombstoned(docs, d)}

\* a default query left out a tombstoned document that satisfies its filter
DefaultQueryHidTombstone ==
  /\ PlainQuery
  /\ ~last.withDeleted
  /\ \E d \in Matching(docs, last.model, last.query) :
       Tombstoned(docs, d) /\ d \notin last.matched

----------------------------------------------------------------------------
(* Authentication and the platform-admin guard: src/backend/middleware/auth.js *)

\* what a CustomError thrown by a middleware or controller shows the caller
Respond(store, clock, handled, status, message) ==
  [store |-> store, clock |-> clock, handled |-> handled, status |-> status,
   message |-> message]

\* authenticate with the populated references taken as always present
authenticateUnpopulated(store, userId) ==
  IF find(store, "User", ("_id" :> userId), FALSE) = {}
    THEN [ok |-> FALSE, message |-> "User not found. Please log in again."]
    ELSE [ok |-> TRUE, message |-> "",
          user |-> [_id |-> userId,
                    organization |-> Field(userId, "organization"),
                    department |-> Field(userId, "department"),
                    role |-> RoleOf[userId]]]

\* authenticate, for a request whose access token was issued to userId:
\* findById and the two populate queries run behind excludeDeleted; the
\* plugin's fields are select:false, so user.isDeleted is undefined, and a
\* reference that did not populate makes user.organization._id throw
authenticate(store, userId) ==
  LET found == find(store, "User", ("_id" :> userId), FALSE)
      organization ==
        find(store, "Organization", ("_id" :> Field(userId, "organization")), FALSE)
      department ==
        find(store, "Department", ("_id" :> Field(userId, "department")), FALSE)
      user == Load(store, userId, FALSE)
  IN IF found = {}
       THEN [ok |-> FALSE, message |-> "User not found. Please log in again."]
     ELSE IF user.isDeleted
       THEN [ok |-> FALSE, message |-> "User account is deactivated."]
     ELSE IF organization = {} \/ department = {}
       THEN [ok |-> FALSE,
             message |-> "Authentication failed. Please log in again."]
     ELSE [ok |-> TRUE, message |-> "",
           user |-> [_id |-> userId,
                     organization |-> Field(userId, "organization"),
                     department |-> Field(userId, "department"),
                     role |-> RoleOf[userId]]]

\* requirePlatformAdmin with the organization comparison left out
requirePlatformAdminAnyOrganization(user) ==
  IF user.role # "SuperAdmin"
    THEN "Platform SuperAdmin role required."
    ELSE ""

\* requirePlatformAdmin: the message of the forbidden error, "" when next()
requirePlatformAdmin(user) ==
  IF user.organization # PLATFORM_ORGANIZATION_ID
    THEN "Platform administrator access required."
  ELSE IF user.role # "SuperAdmin"
    THEN "Platform SuperAdmin role required."
    ELSE ""

----------------------------------------------------------------------------
(* Organization controllers: src/unnamed/part_003 *)

\* Organization.findOne({ <path>: v, _id: { $ne: id }, isDeleted: { $ne: true } })
OtherActiveWith(store, path, v, id) ==
  find(store, "Organization",
       (path :> v) @@ ("_id_ne" :> id) @@ ("isDeleted" :> "ne_true"), FALSE)

\* getOrganizations, getOrganizationStatistics
listOrganizations(store, req, clock) ==
  Respond(store, clock, TRUE, 200, "")

\* getOrganizationById
getOrganizationById(store, req, clock) ==
  IF req.organizationId = PLATFORM_ORGANIZATION_ID
    THEN Respond(store, clock, TRUE, 403,
                 "Cannot access platform organization details.")
  ELSE IF find(store, "Organization", ("_id" :> req.organizationId), FALSE) = {}
    THEN Respond(store, clock, TRUE, 404, "Organization not found.")
    ELSE Respond(store, clock, TRUE, 200, "")

\* createOrganization; fresh is the _id the store gives the new document
createOrganization(store, req, clock, fresh) ==
  IF OtherActiveWith(store, "name", req.body.name, fresh) # {}
    THEN Respond(store, clock, TRUE, 409, "Organization name already exists. Please choose a different name.")
  ELSE IF OtherActiveWith(store, "email", req.body.email, fresh) # {}
    THEN Respond(store, clock, TRUE, 409, "Organization email already exists. Please use a different email.")
    ELSE Respond((fresh :> NewDoc(req.body.name, req.body.email)) @@ store,
                 clock, TRUE, 201, "Organization created successfully")

\* updateOrganization; req.body holds the paths to update
updateOrganization(store, req, clock) ==
  LET id == req.organizationId
      updateData == req.body
  IN IF id = PLATFORM_ORGANIZATION_ID
       THEN Respond(store, clock, TRUE, 403, "Cannot update platform organization.")
     ELSE IF find(store, "Organization", ("_id" :> id), FALSE) = {}
       THEN Respond(store, clock, TRUE, 404, "Organization not found.")
     ELSE IF Load(store, id, FALSE).isDeleted
       THEN Respond(store, clock, TRUE, 400, "Cannot update deleted organization. Restore it first.")
     ELSE IF /\ "name" \in DOMAIN updateData
             /\ updateData.name # store[id].name
             /\ OtherActiveWith(store, "name", updateData.name, id) # {}
       THEN Respond(store, clock, TRUE, 409, "Organization name already exists. Please choose a different name.")
     ELSE IF /\ "email" \in DOMAIN updateData
             /\ updateData.email # store[id].email
             /\ OtherActiveWith(store, "email", updateData.email, id) # {}
       THEN Respond(store, clock, TRUE, 409, "Organization email already exists. Please use a different email.")
     ELSE Respond(updateMany(store, "Organization", ("_id" :> id), updateData),
                  clock, TRUE, 200, "Organization updated successfully")

\* deleteOrganization: organization.softDelete(req.user._id, reason) hands the
\* request's reason to softDelete as its session
deleteOrganization(store, req, clock, tc) ==
  LET id == req.organizationId
      organization == Load(store, id, FALSE)
  IN IF id = PLATFORM_ORGANIZATION_ID
       THEN Respond(store, clock, TRUE, 403, "Cannot delete platform organization.")
     ELSE IF find(store, "Organization", ("_id" :> id), FALSE) = {}
       THEN Respond(store, clock, TRUE, 404, "Organization not found.")
     ELSE IF organization.isDeleted
       THEN Respond(store, clock, TRUE, 400, "Organization is already deleted.")
     ELSE
       LET saved == softDelete(store, organization, req.user._id,
                               req.body.reason, clock, tc)
       IN IF saved.ok
            THEN Respond(saved.store, tc, TRUE, 200,
                         "Organization deleted successfully")
            ELSE Respond(saved.store, tc, TRUE, 500,
                         "Failed to delete organization. Please try again.")

\* restoreOrganization: organization.restore(reason)
restoreOrganization(store, req, clock) ==
  LET id == req.organizationId
      organization == Load(store, id, FALSE)
  IN IF id = PLATFORM_ORGANIZATION_ID
       THEN Respond(store, clock, TRUE, 403, "Cannot restore platform organization.")
     ELSE IF find(store, "Organization", ("_id" :> id), FALSE) = {}
       THEN Respond(store, clock, TRUE, 404, "Organization not found.")
     ELSE IF ~organization.isDeleted
       THEN Respond(store, clock, TRUE, 400, "Organization is not deleted.")
     ELSE IF OtherActiveWith(store, "name", store[id].name, id) # {}
       THEN Respond(store, clock, TRUE, 409,
                    "Cannot restore organization. Name conflicts with existing organization.")
     ELSE IF OtherActiveWith(store, "email", store[id].email, id) # {}
       THEN Respond(store, clock, TRUE, 409,
                    "Cannot restore organization. Email conflicts with existing organization.")
     ELSE
       LET saved == restore(store, organization, req.body.reason, clock)
       IN IF saved.ok
            THEN Respond(saved.store, clock, TRUE, 200,
                         "Organization restored successfully")
            ELSE Respond(saved.store, clock, TRUE, 500,
                         "Failed to restore organization. Please try again.")

----------------------------------------------------------------------------
(* The routes under /api/organizations: src/backend/routes/organizationRoutes.js *)

\* router.use(authenticate, requirePlatformAdmin): whether both called next(),
\* the req.user they left, and the error thrown otherwise
routerUse(store, actor) ==
  LET auth == authenticate(store, actor)
  IN IF ~auth.ok
       THEN [next |-> FALSE, authenticated |-> FALSE, status |-> 401,
             message |-> auth.message]
     ELSE IF requirePlatformAdmin(auth.user) # ""
       THEN [next |-> FALSE, authenticated |-> TRUE, status |-> 403,
             message |-> requirePlatformAdmin(auth.user)]
       ELSE [next |-> TRUE, authenticated |-> TRUE, user |-> auth.user]

\* the request the controller sees
Request(guard, organizationId, body) ==
  [user |-> guard.user, organizationId |-> organizationId, body |-> body]

\* the error of the middleware, or the controller's answer
Answer(guard, controlled) ==
  IF guard.next
    THEN controlled
    ELSE Respond(docs, now, FALSE, guard.status, guard.message)

\* the effect of a request on the store and what its caller observed
Served(route, actor, organizationId, guard, res) ==
  /\ docs' = res.store
  /\ now' = res.clock
  /\ last' = [op |-> route, actor |-> actor,
              authenticated |-> guard.authenticated,
              organizationId |-> organizationId, handled |-> res.handled,
              status |-> res.status, message |-> res.message]

\* GET /
GetOrganizations(actor) ==
  \E guard \in {routerUse(docs, actor)} :
    \E res \in {Answer(guard,
                       listOrganizations(docs, Request(guard, Undefined, <<>>), now))} :
      Served("getOrganizations", actor, Undefined, guard, res)

\* GET /statistics
GetOrganizationStatistics(actor) ==
  \E guard \in {routerUse(docs, actor)} :
    \E res \in {Answer(guard,
                       listOrganizations(docs, Request(guard, Undefined, <<>>), now))} :
      Served("getOrganizationStatistics", actor, Undefined, guard, res)

\* GET /:organizationId
GetOrganizationById(actor, organizationId) ==
  \E guard \in {routerUse(docs, actor)} :
    \E res \in {Answer(guard,
                       getOrganizationById(docs, Request(guard, organizationId, <<>>),
                                           now))} :
      Served("getOrganizationById", actor, organizationId, guard, res)

\* POST /; fresh is the _id the store gives the new document
CreateOrganization(actor, body, fresh) ==
  \E guard \in {routerUse(docs, actor)} :
    \E res \in {Answer(guard,
                       createOrganization(docs, Request(guard, fresh, body), now,
                                          fresh))} :
      Served("createOrganization", actor, fresh, guard, res)

\* PUT /:organizationId
UpdateOrganization(actor, organizationId, body) ==
  \E guard \in {routerUse(docs, actor)} :
    \E res \in {Answer(guard,
                       updateOrganization(docs, Request(guard, organizationId, body),
                                          now))} :
      Served("updateOrganization", actor, organizationId, guard, res)

\* DELETE /:organizationId; the clock stands still during the request
DeleteOrganization(actor, organizationId, body) ==
  \E guard \in {routerUse(docs, actor)} :
    \E res \in {Answer(guard,
                       deleteOrganization(docs, Request(guard, organizationId, body),
                                          now, now))} :
      Served("deleteOrganization", actor, organizationId, guard, res)

\* POST /:organizationId/restore
RestoreOrganization(actor, organizationId, body) ==
  \E guard \in {routerUse(docs, actor)} :
    \E res \in {Answer(guard,
                       restoreOrganization(docs, Request(guard, organizationId, body),
                                           now))} :
      Served("restoreOrganization", actor, organizationId, guard, res)

OrgRoutes ==
  {"getOrganizations", "getOrganizationStatistics", "getOrganizationById",
   "createOrganization", "updateOrganization", "deleteOrganization",
   "restoreOrganization"}

\* the documents the organization specification starts with
OrgDocs == {"o0", "d0", "u0", "ua", "o1", "d1", "d2", "u1", "u2"}

\* the holders of the access tokens the requests carry
OrgActors == {"u0", "ua", "u1"}

\* req.params.organizationId
OrgParams == {PLATFORM_ORGANIZATION_ID, "o1", "o2"}

OrgNames == {"acme", "globex"}

OrgEmails == {"info@acme", "info@globex"}

\* req.body of POST /
CreateBodies == [name : OrgNames, email : OrgEmails]

\* req.body of PUT /:organizationId
UpdateBodies ==
  {("name" :> n) : n \in OrgNames} \cup {("email" :> e) : e \in OrgEmails}

\* req.body of DELETE /:organizationId and POST /:organizationId/restore
ReasonBodies == {[reason |-> Null], [reason |-> "cleanup"]}

InitOrg ==
  /\ docs = InitDocs(OrgDocs)
  /\ now = 1
  /\ last = [op |-> "init"]

NextGetOrganizations == \E actor \in OrgActors : GetOrganizations(actor)

NextGetOrganizationStatistics ==
  \E actor \in OrgActors : GetOrganizationStatistics(actor)

NextGetOrganizationById ==
  \E actor \in OrgActors, organizationId \in OrgParams :
    GetOrganizationById(actor, organizationId)

NextCreateOrganization ==
  \E actor \in OrgActors, body \in CreateBodies,
     fresh \in OrgParams \ DOMAIN docs :
    CreateOrganization(actor, body, fresh)

NextUpdateOrganization ==
  \E actor \in OrgActors, organizationId \in OrgParams, body \in UpdateBodies :
    UpdateOrganization(actor, organizationId, body)

NextDeleteOrganization ==
  \E actor \in OrgActors, organizationId \in OrgParams, body \in ReasonBodies :
    DeleteOrganization(actor, organizationId, body)

NextRestoreOrganization ==
  \E actor \in OrgActors, organizationId \in OrgParams, body \in ReasonBodies :
    RestoreOrganization(actor, organizationId, body)

\* Organization.restoreById(id)
NextOrganizationRestoreById ==
  \E d \in DOMAIN docs : ModelOf(d) = "Organization" /\ RestoreById(d)

\* (await Organization.findDeleted({ _id: id }))[0].restore()
NextOrganizationDocRestore ==
  \E d \in DOMAIN docs :
    ModelOf(d) = "Organization" /\ DocRestore(d, "findDeleted")

NextOrg ==
  \/ NextGetOrganizations
  \/ NextGetOrganizationStatistics
  \/ NextGetOrganizationById
  \/ NextCreateOrganization
  \/ NextUpdateOrganization
  \/ NextDeleteOrganization
  \/ NextRestoreOrganization
  \/ NextOrganizationRestoreById
  \/ NextOrganizationDocRestore

SpecOrg == InitOrg /\ [][NextOrg]_vars

----------------------------------------------------------------------------
(* Properties of the organization routes *)

IsPlatformAdmin(actor) ==
  /\ Field(actor, "organization") = PLATFORM_ORGANIZATION_ID
  /\ RoleOf[actor] = "SuperAdmin"

\* C6: a request to any of the seven organization routes reaches its
\* controller only when the authenticated actor belongs to the platform
\* organization and has the SuperAdmin role; every other authenticated actor,
\* a customer organization's SuperAdmin included, is answered 403 before the
\* controller runs.
PlatformAdminGuard ==
  last.op \in OrgRoutes =>
    /\ last.handled => (last.authenticated /\ IsPlatformAdmin(last.actor))
    /\ (last.authenticated /\ ~IsPlatformAdmin(last.actor)) =>
         (last.status = 403 /\ ~last.handled)

\* the SuperAdmin of customer organization o1 asked for the list and got 403
CustomerSuperAdminRejected ==
  /\ last.op = "getOrganizations"
  /\ last.actor = "u1"
  /\ RoleOf[last.actor] = "SuperAdmin"
  /\ last.authenticated
  /\ last.status = 403
  /\ ~last.handled

RestoreTarget(l) ==
  IF l.op = "restoreOrganization" THEN l.organizationId ELSE l.id

\* id is tombstoned while an organization that is not holds its name or email
RestoreConflict(store, id) ==
  /\ id \in DOMAIN store
  /\ ModelOf(id) = "Organization"
  /\ store[id].isDeleted
  /\ \/ OtherActiveWith(store, "name", store[id].name, id) # {}
     \/ OtherActiveWith(store, "email", store[id].email, id) # {}

\* C10: restoring a tombstoned organization while an active organization has
\* its name or email leaves every record as it was, and the route answers 409.
RestoreConflictRejected ==
  [][(/\ last'.op \in {"restoreOrganization", "restoreById", "restore"}
      /\ last'.op = "restoreOrganization" => last'.handled
      /\ RestoreConflict(docs, RestoreTarget(last'))) =>
       (/\ docs' = docs
        /\ last'.op = "restoreOrganization" => last'.status = 409)]_vars

----------------------------------------------------------------------------
(* The task tree: an organization, a department, a task and what hangs on it *)

TaskDocs == {"o1", "d1", "t1", "a1", "c1", "c2", "f1", "f2", "f3"}

InitTask ==
  /\ docs = InitDocs(TaskDocs)
  /\ now = 1
  /\ last = [op |-> "init"]

\* doc = await Model.findById(id); await doc.softDelete(req.user._id)
NextTaskSoftDelete ==
  \E d \in DOMAIN docs, deletedBy \in ActorIds : DocSoftDelete(d, deletedBy, "find")

NextTask == NextTaskSoftDelete

SpecTask == InitTask /\ [][NextTask]_vars

\* the tasks of an organization or department
TasksOf(parent) ==
  {t \in IdsOf("BaseTask") :
     Field(t, "organization") = parent \/ Field(t, "department") = parent}

\* the activities, comments and attachments of a set of tasks
OnTasks(tasks) ==
  {d \in DocIds : Field(d, "task") \in tasks \/ Field(d, "attachedTo") \in tasks}

\* the attachments of a set of activities and comments
AttachedTo(owners) ==
  {d \in IdsOf("Attachment") : Field(d, "attachedTo") \in owners}

\* C9: soft-deleting an Organization or a Department tombstones the
\* activities, comments and attachments of each of its tasks, and the
\* attachments of those activities and comments.
TransitiveCascade ==
  [][(/\ last'.op = "softDelete"
      /\ ModelOf(last'.id) \in {"Organization", "Department"}
      /\ docs'[last'.id].isDeleted) =>
       \A d \in OnTasks(TasksOf(last'.id)) \cup AttachedTo(OnTasks(TasksOf(last'.id))) :
         d \in DOMAIN docs => docs'[d].isDeleted]_vars

----------------------------------------------------------------------------
(* Authentication over the lifecycle of a user, its organization and its
   department *)

\* a request carrying a valid access token issued to userId passes authenticate
Authenticate(userId) ==
  /\ \E auth \in {authenticate(docs, userId)} :
       last' = [op |-> "authenticate", userId |-> userId, next |-> auth.ok,
                status |-> IF auth.ok THEN 200 ELSE 401,
                message |-> auth.message]
  /\ UNCHANGED <<docs, now>>

NextAuthenticate ==
  \E userId \in {d \in DOMAIN docs : ModelOf(d) = "User"} : Authenticate(userId)

NextAuthn == NextSoftDeleteById \/ NextRestoreById \/ NextAuthenticate

SpecAuthn == Init /\ [][NextAuthn]_vars

\* the user, its organization or its department is tombstoned
Deactivated(store, userId) ==
  \/ Tombstoned(store, userId)
  \/ Tombstoned(store, Field(userId, "organization"))
  \/ Tombstoned(store, Field(userId, "department"))

\* C11: authenticate never calls next() for a user that is tombstoned or whose
\* organization or department is tombstoned; the request is answered 401.
DeactivatedNeverAuthenticated ==
  (last.op = "authenticate" /\ Deactivated(docs, last.userId)) =>
    (~last.next /\ last.status = 401)

\* an active user whose department alone is tombstoned was turned away
DeactivatedDepartmentRejected ==
  /\ last.op = "authenticate"
  /\ ~Tombstoned(docs, last.userId)
  /\ ~Tombstoned(docs, Field(last.userId, "organization"))
  /\ Tombstoned(docs, Field(last.userId, "department"))
  /\ ~last.next

----------------------------------------------------------------------------
(* Repeated soft delete and restore of a record *)

\* C12: softDelete or softDeleteById on a record that is already tombstoned is
\* rejected and leaves isDeleted, deletedAt and deletedBy as they were.
AlreadyDeletedRejected ==
  [][(/\ last'.op \in {"softDelete", "softDeleteById"}
      /\ Tombstoned(docs, last'.id)) =>
       (last'.rejected /\ docs'[last'.id] = docs[last'.id])]_vars

\* C13: restore or restoreById on a record that is not tombstoned is rejected
\* and leaves the record as it was.
NotDeletedRejected ==
  [][(/\ last'.op \in {"restore", "restoreById"}
      /\ ~Tombstoned(docs, last'.id)) =>
       (last'.rejected /\ docs'[last'.id] = docs[last'.id])]_vars

----------------------------------------------------------------------------
(* Hard delete prevention: softDelete.js, HARD DELETE PREVENTION *)

\* a plugin option preventHardDelete of false
preventHardDeleteOff(model) == FALSE

\* the preventHardDelete option of a schema: every schema applies the plugin
\* without it, so the default of true holds
preventHardDelete(model) == TRUE

\* the records a hard delete removes when no hook stops it
Removed(store, method, model, filter) ==
  LET matched == Matching(store, model, filter)
  IN IF method \in {"deleteMany", "cleanupOldNotifications"} \/ matched = {}
       THEN matched
       ELSE {CHOOSE d \in matched : TRUE}

\* deleteOne / deleteMany / findOneAndDelete / remove behind blockHardDelete
hardDelete(store, method, model, filter) ==
  IF preventHardDelete(model)
    THEN [code |-> "HARD_DELETE_DISABLED", store |-> store]
    ELSE [code |-> Null,
          store |-> [d \in DOMAIN store \ Removed(store, method, model, filter)
                       |-> store[d]]]

\* Model.<method>(filter), or doc.remove() with filter { _id: doc._id }
HardDelete(method, model, filter) ==
  \E r \in {hardDelete(docs, method, model, filter)} :
    /\ docs' = r.store
    /\ last' = [op |-> method, model |-> model, query |-> filter,
                code |-> r.code,
                removed |-> DOMAIN docs \ DOMAIN r.store]
    /\ UNCHANGED now

\* Notification.cleanupOldNotifications(): deleteMany of the read notifications
\* older than the cutoff; every notification of the model is older
CleanupOldNotifications ==
  HardDelete("cleanupOldNotifications", "Notification", ("isRead" :> TRUE))

HardDeleteMethods == {"deleteOne", "deleteMany", "findOneAndDelete", "remove"}

HardDeleteDocs == {"u1", "n1", "n2"}

\* the filters of the hard deletes
HardDeleteFilters == {NoFilter, ("_id" :> "u1")}

InitHardDelete ==
  /\ docs = InitDocs(HardDeleteDocs)
  /\ now = 1
  /\ last = [op |-> "init"]

NextHardDelete ==
  \E method \in HardDeleteMethods, model \in Models(docs),
     filter \in HardDeleteFilters :
    HardDelete(method, model, filter)

NextDeletes ==
  \/ NextHardDelete
  \/ CleanupOldNotifications
  \/ NextSoftDeleteById
  \/ NextRestoreById

SpecHardDelete == InitHardDelete /\ [][NextDeletes]_vars

----------------------------------------------------------------------------
(* A soft delete step by step: each cascade update and the parent's write are
   separate writes to the store, and each of them can fail *)

\* the entry to process after the catch block of entry i
nextAfterCatchBreak(cascadeDelete, i) == Len(cascadeDelete) + 1

\* the catch block logs and does not throw: the loop goes on with entry i + 1
nextAfterCatch(cascadeDelete, i) == i + 1

\* no save is between its hooks and its write
Idle == last.op # "saving"

\* doc = await Model.findById(d); doc.softDelete(deletedBy) up to the end of
\* the first pre-save hook
StartSoftDelete(d, deletedBy) ==
  /\ Idle
  /\ Loadable(docs, d, "find")
  /\ Len(CascadeDelete(ModelOf(d))) > 0
  /\ LET stamped ==
           Assign(Assign(Load(docs, d, FALSE), "isDeleted", TRUE), "deletedAt", now)
         signed == IF deletedBy # Null
                     THEN Assign(stamped, "deletedBy", deletedBy)
                     ELSE stamped
     IN last' = [op |-> "saving", id |-> d, doc |-> preSaveDeletedAt(signed, now),
                 entry |-> 1, failed |-> {}]
  /\ UNCHANGED <<docs, now>>

\* one pass of the loop of executeCascadeDelete: the try block completes, or
\* it throws before its update reached the store and the catch block logs
CascadeEntry ==
  /\ last.op = "saving"
  /\ last.entry <= Len(CascadeDelete(ModelOf(last.id)))
  /\ \/ /\ docs' = cascadeStep(docs, CascadeDelete(ModelOf(last.id)), last.doc,
                               now, last.entry)
        /\ last' = [last EXCEPT !.entry = @ + 1]
     \/ /\ docs' = docs
        /\ last' = [last EXCEPT
                      !.entry = nextAfterCatch(CascadeDelete(ModelOf(last.id)), @),
                      !.failed = @ \cup {last.entry}]
  /\ UNCHANGED now

\* the write of the parent after the hooks
WriteParent ==
  /\ last.op = "saving"
  /\ last.entry > Len(CascadeDelete(ModelOf(last.id)))
  /\ docs' = WriteModified(docs, last.doc)
  /\ last' = [op |-> "saved", id |-> last.id, failed |-> last.failed,
              rejected |-> FALSE]
  /\ UNCHANGED now

\* the write of the parent rejects (the store is unreachable, the session is
\* not one): save() rejects after the hooks
WriteRejected ==
  /\ last.op = "saving"
  /\ last.entry > Len(CascadeDelete(ModelOf(last.id)))
  /\ last' = [op |-> "saved", id |-> last.id, failed |-> last.failed,
              rejected |-> TRUE]
  /\ UNCHANGED <<docs, now>>

\* the documents of the stepwise specification
CascadeDocs == {"o1", "d1", "d2", "u1", "u2", "t1"}

InitCascade ==
  /\ docs = InitDocs(CascadeDocs)
  /\ now = 1
  /\ last = [op |-> "init"]

NextStartSoftDelete ==
  \E d \in DOMAIN docs, deletedBy \in DeletedByArgs : StartSoftDelete(d, deletedBy)

NextCascade ==
  \/ NextStartSoftDelete
  \/ CascadeEntry
  \/ WriteParent
  \/ WriteRejected

SpecCascade == InitCascade /\ [][NextCascade]_vars

\* C15: a cascade update tombstones a child only when the tombstone of the
\* parent being deleted is already in the store.
ParentFirst ==
  [][(/\ last.op = "saving"
      /\ \E d \in DOMAIN docs : ~Tombstoned(docs, d) /\ Tombstoned(docs', d)
      /\ docs'[last.id] = docs[last.id]) =>
       Tombstoned(docs, last.id)]_vars

\* the records the i-th cascade entry of parent selects
EntryChildren(store, parent, i) ==
  LET cascadeConfig == CascadeDelete(ModelOf(parent))[i]
  IN Matching(store, cascadeConfig.model, (cascadeConfig.field :> parent))

\* the children of parent over all its cascade entries
CascadeChildren(store, parent) ==
  UNION {EntryChildren(store, parent, i) :
           i \in 1..Len(CascadeDelete(ModelOf(parent)))}

\* C16: the children a soft delete tombstones carry the deletedAt and the
\* deletedBy the parent was tombstoned with.
CascadePropagation ==
  [][(last'.op = "softDelete" /\ Tombstoned(docs', last'.id)) =>
       \A d \in CascadeChildren(docs, last'.id) :
         (~Tombstoned(docs, d) /\ Tombstoned(docs', d)) =>
           /\ docs'[d].deletedAt = docs'[last'.id].deletedAt
           /\ docs'[d].deletedBy = docs'[last'.id].deletedBy]_vars

\* C17: when save() resolves after some cascade entries threw, the parent is
\* tombstoned and so is every child of every entry that did not throw.
BestEffortCascade ==
  (last.op = "saved" /\ ~last.rejected) =>
    /\ Tombstoned(docs, last.id)
    /\ \A i \in 1..Len(CascadeDelete(ModelOf(last.id))) :
         i \notin last.failed =>
           \A d \in EntryChildren(docs, last.id, i) : Tombstoned(docs, d)

\* the Department update of organization o1's cascade threw; its users and the
\* organization itself were tombstoned all the same
DepartmentEntryFailed ==
  /\ last.op = "saved"
  /\ ~last.rejected
  /\ last.id = "o1"
  /\ last.failed = {1}
  /\ Tombstoned(docs, "o1")
  /\ Tombstoned(docs, "u1") /\ Tombstoned(docs, "u2") /\ Tombstoned(docs, "t1")
  /\ ~Tombstoned(docs, "d1")

----------------------------------------------------------------------------
(* Aggregation: softDelete.js, schema.pre("aggregate") *)

\* a pipeline stage: its operator, the isDeleted clause of a $match (Undefined
\* when it has none) and the sub-pipeline of a $lookup or $facet
Stage(op, isDeleted, pipeline) ==
  [op |-> op, isDeleted |-> isDeleted, pipeline |-> pipeline]

\* s.$match && s.$match.isDeleted !== undefined
MatchesOnIsDeleted(stage) == stage.op = "$match" /\ stage.isDeleted # Undefined

\* hasDeletedFilter: a top-level $match on isDeleted, or one in the pipeline
\* of a $lookup
hasDeletedFilter(pipeline) ==
  \E i \in 1..Len(pipeline) :
    \/ MatchesOnIsDeleted(pipeline[i])
    \/ /\ pipeline[i].op = "$lookup"
       /\ \E j \in 1..Len(pipeline[i].pipeline) :
            MatchesOnIsDeleted(pipeline[i].pipeline[j])

\* the pre("aggregate") hook: the pipeline that is executed
preAggregate(pipeline, withDeleted) ==
  IF withDeleted \/ hasDeletedFilter(pipeline)
    THEN pipeline
    ELSE <<Stage("$match", "false", <<>>)>> \o pipeline

\* the documents of the aggregated collection that pass the top-level $match
\* stages of the executed pipeline
aggregate(store, model, pipeline, withDeleted) ==
  LET executed == preAggregate(pipeline, withDeleted)
  IN {d \in Matching(store, model, NoFilter) :
        \A i \in 1..Len(executed) :
          MatchesOnIsDeleted(executed[i]) =>
            MatchesClause(store, d, "isDeleted", executed[i].isDeleted)}

\* Model.aggregate(pipeline), with the withDeleted option when withDeleted
Aggregate(model, pipeline, withDeleted) ==
  /\ last' = [op |-> "aggregate", model |-> model, pipeline |-> pipeline,
              withDeleted |-> withDeleted,
              executed |-> preAggregate(pipeline, withDeleted),
              result |-> aggregate(docs, model, pipeline, withDeleted)]
  /\ UNCHANGED <<docs, now>>

\* the stages pipelines are built from
Stages ==
  {Stage("$match", c, <<>>) : c \in {Undefined, "false", "true"}}
  \cup {Stage("$group", Undefined, <<>>), Stage("$lookup", Undefined, <<>>)}
  \cup {Stage(op, Undefined, <<Stage("$match", "false", <<>>)>>) :
          op \in {"$lookup", "$facet"}}

\* the longest pipeline
MaxStages == 2

Pipelines == UNION {[1..n -> Stages] : n \in 1..MaxStages}

\* the aggregated collection
AggregateDocs == {"o1", "o2"}

InitAggregate ==
  /\ docs = InitDocs(AggregateDocs)
  /\ now = 1
  /\ last = [op |-> "init"]

NextAggregate ==
  \E model \in Models(docs), pipeline \in Pipelines, withDeleted \in BOOLEAN :
    Aggregate(model, pipeline, withDeleted)

NextAggregation == NextSoftDeleteById \/ NextRestoreById \/ NextAggregate

SpecAggregate == InitAggregate /\ [][NextAggregation]_vars

\* a top-level $match of the pipeline filters on isDeleted
TopLevelFilter(pipeline) ==
  \E i \in 1..Len(pipeline) : MatchesOnIsDeleted(pipeline[i])

\* a $match of the pipeline or of one of its sub-pipelines filters on isDeleted
AnyLevelFilter(pipeline) ==
  \/ TopLevelFilter(pipeline)
  \/ \E i \in 1..Len(pipeline) : TopLevelFilter(pipeline[i].pipeline)

----------------------------------------------------------------------------
(* Unique keys: the unique indexes of the schemas and the validator
   isUniqueInOrganization *)

\* the path of the compound unique index { <path>: 1, organization: 1 }
UniquePath(model) == IF model = "User" THEN "email" ELSE "name"

\* isUniqueInOrganization(model, field): TRUE when the validator passes
isUniqueInOrganization(store, model, field, value, organization) ==
  find(store, model,
       (field :> value) @@ ("organization" :> organization)
         @@ ("isDeleted" :> "ne_true"), FALSE) = {}

\* the unique index has no partialFilterExpression: every stored record of the
\* collection holds its key, tombstoned or not
DuplicateKey(store, model, value, organization) ==
  \E d \in DOMAIN store :
    /\ ModelOf(d) = model
    /\ Field(d, "organization") = organization
    /\ store[d][UniquePath(model)] = value

\* the validator, then Model.create({ <path>: value, organization })
create(store, fresh, value) ==
  LET model == ModelOf(fresh)
      organization == Field(fresh, "organization")
  IN IF ~isUniqueInOrganization(store, model, UniquePath(model), value, organization)
       THEN [code |-> "already exists in your organization", store |-> store]
     ELSE IF DuplicateKey(store, model, value, organization)
       THEN [code |-> "E11000", store |-> store]
       ELSE [code |-> Null,
             store |-> (fresh :> [NewDoc("", "") EXCEPT ![UniquePath(model)] = value])
                         @@ store]

Create(fresh, value) ==
  \E r \in {create(docs, fresh, value)} :
    /\ docs' = r.store
    /\ last' = [op |-> "create", id |-> fresh, value |-> value, code |-> r.code]
    /\ UNCHANGED now

\* the records the unique-key specification starts with
UniqueDocs == {"d1", "u1"}

\* the values a new record is created with
NewValues(model) ==
  IF model = "User" THEN {"ann@acme", "dan@acme"} ELSE {"sales", "legal"}

InitUnique ==
  /\ docs = InitDocs(UniqueDocs)
  /\ now = 1
  /\ last = [op |-> "init"]

NextCreate ==
  \E fresh \in {"d4", "u4"} \ DOMAIN docs :
    \E value \in NewValues(ModelOf(fresh)) : Create(fresh, value)

NextUnique == NextCreate \/ NextSoftDeleteById \/ NextRestoreById

SpecUnique == InitUnique /\ [][NextUnique]_vars

\* the stored records of fresh's collection and organization that hold value
Holders(store, fresh, value) ==
  {d \in DOMAIN store :
     /\ ModelOf(d) = ModelOf(fresh)
     /\ Field(d, "organization") = Field(fresh, "organization")
     /\ store[d][UniquePath(ModelOf(fresh))] = value}

\* C19: creating a record is rejected when an active record of its
\* organization holds its key, and succeeds when only tombstoned ones do.
UniqueAmongActive ==
  [][last'.op = "create" =>
       IF \E d \in Holders(docs, last'.id, last'.value) : ~Tombstoned(docs, d)
         THEN last'.code # Null /\ docs' = docs
         ELSE last'.code = Null /\ last'.id \in DOMAIN docs']_vars

----------------------------------------------------------------------------
(* What a denied caller observes: authorize with its catch block *)

\* authorize from getTargetResource(req) on: when that call throws an error
\* that is not a CustomError, the catch block answers for it
authorizeCaught(action, resource, options, req) ==
  IF options.throws
    THEN [next |-> FALSE, error |-> "forbidden",
          message |-> <<"Authorization check failed.">>]
    ELSE authorize(action, resource, options, req)

\* the targets of the denial specification: none, a task of the actor's
\* organization o1 and a task of organization o2
DenialTargets ==
  {[resourceType |-> Null, target |-> NoTarget]} \cup
  ([resourceType : {Null},
    target : [_id : {"t1"}, organization : {"o1", "o2"}, department : {"d2"},
              createdBy : {"u2"}]])

DenialRequests ==
  {[op |-> "request", user |-> u, action |-> a, resource |-> r,
    resourceType |-> tt.resourceType, target |-> tt.target,
    allowSelf |-> FALSE, id |-> "u2", throws |-> th] :
     u \in AuthUsers, a \in Actions, r \in Resources, tt \in DenialTargets,
     th \in BOOLEAN}

InitDenial ==
  /\ docs = InitDocs(LifecycleDocs)
  /\ now = 1
  /\ last \in DenialRequests

\* a request through the middleware, its catch block included
AuthorizeCaught ==
  /\ last.op = "request"
  /\ last' = [last EXCEPT !.op = "authorize"] @@
             authorizeCaught(last.action, last.resource,
                             [allowSelf |-> last.allowSelf,
                              targetResource |-> last.target,
                              resourceType |-> last.resourceType,
                              throws |-> last.throws],
                             [user |-> last.user, params |-> [id |-> last.id]])
  /\ UNCHANGED <<docs, now>>

NextDenial == AuthorizeCaught

SpecDenial == InitDenial /\ [][NextDenial]_vars

\* C20: every request the authorization middleware denies is answered with
\* the same error for its actor, action and resource, whatever made the check
\* fail.
DenialRevealsNoCause ==
  (last.op = "authorize" /\ ~last.next) =>
    /\ last.error = "forbidden"
    /\ last.message = <<"Insufficient permissions to", last.action, last.resource>>

----------------------------------------------------------------------------
(* Registration: registerOrganization of src/unnamed/part_002 and the
   check-then-create of createOrganization, one store access at a time *)

\* String.prototype.toLowerCase on the addresses the requests carry
toLowerCase(s) ==
  CASE s = "HR@initech" -> "hr@initech"
    [] s = "Ann@initech" -> "ann@initech"
    [] s = "Ann@acme" -> "ann@acme"
    [] OTHER -> s

\* a stored Organization or Department: createdBy is a path of both schemas
NewOwned(name, email, createdBy) ==
  [isDeleted |-> FALSE, deletedAt |-> NullDate, deletedBy |-> Null,
   name |-> name, email |-> email, createdBy |-> createdBy]

\* the _ids the store can give a new document created with these foreign keys
Fresh(store, model, keys) ==
  {d \in IdsOf(model) \ DOMAIN store :
     \A k \in DOMAIN keys : Field(d, k) = keys[k]}

\* the _ids the store can give a new User created with these keys and role
FreshUser(store, organization, department, role) ==
  {d \in Fresh(store, "User",
               [organization |-> organization, department |-> department]) :
     d \in DOMAIN RoleOf /\ RoleOf[d] = role}

\* a name check that finds nothing
existingOrgByNameNone(store, handler, name) == {}

\* existingOrgByName: registerOrganization asks findOne({ name }) behind
\* excludeDeleted, createOrganization adds isDeleted: { $ne: true } itself
existingOrgByName(store, handler, name) ==
  IF handler = "registerOrganization"
    THEN find(store, "Organization", ("name" :> name), FALSE)
    ELSE find(store, "Organization",
              ("name" :> name) @@ ("isDeleted" :> "ne_true"), FALSE)

\* existingOrgByEmail
existingOrgByEmail(store, handler, email) ==
  IF handler = "registerOrganization"
    THEN find(store, "Organization", ("email" :> toLowerCase(email)), FALSE)
    ELSE find(store, "Organization",
              ("email" :> toLowerCase(email)) @@ ("isDeleted" :> "ne_true"),
              FALSE)

\* step 5 with the organization's _id written as createdBy
createdByOrganization(organization, department, user) ==
  [createdBy |-> organization]

\* step 5: the update document of both findByIdAndUpdate calls
createdByUpdate(organization, department, user) == [createdBy |-> user]

\* the requests in flight
Requests == {1, 2}

\* the _id the store gives the organization request p creates
OrganizationIdFor == <<"o3", "o4">>

Handlers == {"registerOrganization", "createOrganization"}

\* a request that has not arrived
NoRequest ==
  [handler |-> Null, pc |-> "idle", body |-> <<>>, organization |-> Null,
   department |-> Null, user |-> Null, status |-> 0, message |-> ""]

\* request p moves on: its handler's locals after the step
Step(p, op, r) ==
  last' = [last EXCEPT !.op = op, !.p = p, !.req[p] = r]

\* next(CustomError) or res.status(...).json(...): the request is over
Finish(p, op, status, message) ==
  Step(p, op, [last.req[p] EXCEPT !.pc = "done", !.status = status,
                                  !.message = message])

\* the request reaches its handler; req.user of createOrganization is u0
Receive(p, handler, body) ==
  /\ last.req[p].pc = "idle"
  /\ Step(p, "receive", [NoRequest EXCEPT !.handler = handler,
                                         !.pc = "checkName", !.body = body])
  /\ UNCHANGED <<docs, now>>

\* const existingOrgByName = await Organization.findOne(...)
CheckOrganizationName(p) ==
  /\ last.req[p].pc = "checkName"
  /\ IF existingOrgByName(docs, last.req[p].handler,
                          last.req[p].body.organizationName) # {}
       THEN Finish(p, "checkName", 409,
              "Organization name already exists. Please choose a different name.")
       ELSE Step(p, "checkName", [last.req[p] EXCEPT !.pc = "checkEmail"])
  /\ UNCHANGED <<docs, now>>

\* const existingOrgByEmail = await Organization.findOne(...)
CheckOrganizationEmail(p) ==
  /\ last.req[p].pc = "checkEmail"
  /\ IF existingOrgByEmail(docs, last.req[p].handler,
                           last.req[p].body.organizationEmail) # {}
       THEN Finish(p, "checkEmail", 409,
              "Organization email already exists. Please use a different email.")
       ELSE Step(p, "checkEmail",
                 [last.req[p] EXCEPT !.pc = "createOrganization"])
  /\ UNCHANGED <<docs, now>>

\* step 1: const organization = await Organization.create(organizationData)
InsertOrganization(p) ==
  /\ last.req[p].pc = "createOrganization"
  /\ LET r == last.req[p]
         fresh == OrganizationIdFor[p]
         createdBy == IF r.handler = "registerOrganization" THEN Null ELSE "u0"
     IN /\ docs' = (fresh :> NewOwned(r.body.organizationName,
                                      toLowerCase(r.body.organizationEmail),
                                      createdBy)) @@ docs
        /\ Step(p, "createOrganization",
                [r EXCEPT !.organization = fresh,
                          !.pc = IF r.handler = "registerOrganization"
                                   THEN "createDepartment" ELSE "respond"])
  /\ UNCHANGED now

\* step 2: const department = await Department.create(departmentData); the
\* unique index { organization, name } answers a duplicate with code 11000
InsertDepartment(p) ==
  /\ last.req[p].pc = "createDepartment"
  /\ LET r == last.req[p]
     IN IF DuplicateKey(docs, "Department", r.body.departmentName, r.organization)
          THEN /\ Finish(p, "createDepartment", 409, "Organization already exists.")
               /\ UNCHANGED docs
          ELSE \E fresh \in Fresh(docs, "Department",
                                  [organization |-> r.organization]) :
                 /\ docs' = (fresh :> NewOwned(r.body.departmentName, "", Null))
                              @@ docs
                 /\ Step(p, "createDepartment",
                         [r EXCEPT !.department = fresh, !.pc = "checkUser"])
  /\ UNCHANGED now

\* step 3: const existingUser = await User.findOne({ email, organization })
CheckUserEmail(p) ==
  /\ last.req[p].pc = "checkUser"
  /\ LET r == last.req[p]
     IN IF find(docs, "User",
                ("email" :> toLowerCase(r.body.email))
                  @@ ("organization" :> r.organization), FALSE) # {}
          THEN Finish(p, "checkUser", 409,
                      "User email already exists in this organization.")
          ELSE Step(p, "checkUser", [r EXCEPT !.pc = "createUser"])
  /\ UNCHANGED <<docs, now>>

\* step 4: const user = await User.create(userData), role "SuperAdmin"
InsertUser(p) ==
  /\ last.req[p].pc = "createUser"
  /\ LET r == last.req[p]
     IN \E fresh \in FreshUser(docs, r.organization, r.department, "SuperAdmin") :
          /\ docs' = (fresh :> NewDoc("", toLowerCase(r.body.email))) @@ docs
          /\ Step(p, "createUser",
                  [r EXCEPT !.user = fresh, !.pc = "updateOrganization"])
  /\ UNCHANGED now

\* step 5: await Organization.findByIdAndUpdate(organization._id, ...)
SetOrganizationCreatedBy(p) ==
  /\ last.req[p].pc = "updateOrganization"
  /\ LET r == last.req[p]
     IN /\ docs' = updateMany(docs, "Organization", ("_id" :> r.organization),
                     createdByUpdate(r.organization, r.department, r.user))
        /\ Step(p, "updateOrganization", [r EXCEPT !.pc = "updateDepartment"])
  /\ UNCHANGED now

\* step 5: await Department.findByIdAndUpdate(department._id, ...)
SetDepartmentCreatedBy(p) ==
  /\ last.req[p].pc = "updateDepartment"
  /\ LET r == last.req[p]
     IN /\ docs' = updateMany(docs, "Department", ("_id" :> r.department),
                     createdByUpdate(r.organization, r.department, r.user))
        /\ Step(p, "updateDepartment", [r EXCEPT !.pc = "respond"])
  /\ UNCHANGED now

\* the populated read of what was created, the tokens and the 201 answer; a
\* user or reference that does not populate ends in the catch block
RespondCreated(p) ==
  /\ last.req[p].pc = "respond"
  /\ LET r == last.req[p]
     IN IF r.handler = "createOrganization"
          THEN Finish(p, "respond", 201, "Organization created successfully")
        ELSE IF find(docs, "User", ("_id" :> r.user), FALSE) = {}
          THEN Finish(p, "respond", 500,
                      "Failed to register organization. Please try again.")
        ELSE IF find(docs, "Organization", ("_id" :> r.organization), FALSE) = {}
          THEN Finish(p, "respond", 500,
                      "User organization is required for token generation")
        ELSE IF find(docs, "Department", ("_id" :> r.department), FALSE) = {}
          THEN Finish(p, "respond", 500,
                      "User department is required for token generation")
          ELSE Finish(p, "respond", 201, "Organization registered successfully")
  /\ UNCHANGED <<docs, now>>

\* the names and addresses of the requests
RegisterNames == {"acme", "globex", "initech"}

RegisterEmails == {"info@acme", "HR@initech"}

RegisterBodies ==
  [organizationName : RegisterNames, organizationEmail : RegisterEmails,
   departmentName : {"sales"}, email : {"Ann@initech"}]

\* the store the requests arrive at: organization o1 is active, organization
\* o2 was soft-deleted by u0
InitRegister ==
  /\ docs = [d \in {"o1", "o2"} |->
               IF d = "o1"
                 THEN NewOwned(InitialName[d], InitialEmail[d], "u1")
                 ELSE [NewOwned(InitialName[d], InitialEmail[d], "u3")
                         EXCEPT !.isDeleted = TRUE, !.deletedAt = 1,
                                !.deletedBy = "u0"]]
  /\ now = 1
  /\ last = [op |-> "init", p |-> 0, req |-> [p \in Requests |-> NoRequest]]

NextReceive ==
  \E p \in Requests, handler \in Handlers, body \in RegisterBodies :
    Receive(p, handler, body)

NextCheckOrganizationName == \E p \in Requests : CheckOrganizationName(p)

NextCheckOrganizationEmail == \E p \in Requests : CheckOrganizationEmail(p)

NextInsertOrganization == \E p \in Requests : InsertOrganization(p)

NextInsertDepartment == \E p \in Requests : InsertDepartment(p)

NextCheckUserEmail == \E p \in Requests : CheckUserEmail(p)

NextInsertUser == \E p \in Requests : InsertUser(p)

NextSetOrganizationCreatedBy == \E p \in Requests : SetOrganizationCreatedBy(p)

NextSetDepartmentCreatedBy == \E p \in Requests : SetDepartmentCreatedBy(p)

NextRespondCreated == \E p \in Requests : RespondCreated(p)

NextRegister ==
  \/ NextReceive
  \/ NextCheckOrganizationName
  \/ NextCheckOrganizationEmail
  \/ NextInsertOrganization
  \/ NextInsertDepartment
  \/ NextCheckUserEmail
  \/ NextInsertUser
  \/ NextSetOrganizationCreatedBy
  \/ NextSetDepartmentCreatedBy
  \/ NextRespondCreated

SpecRegister == InitRegister /\ [][NextRegister]_vars

\* the organizations that are not tombstoned and hold the name
ActiveNamed(store, name) ==
  {o \in DOMAIN store :
     ModelOf(o) = "Organization" /\ ~Tombstoned(store, o) /\ store[o].name = name}

\* the documents request p has created so far
CreatedBy(p) ==
  {last.req[p].organization, last.req[p].department, last.req[p].user} \ {Null}

\* C21: a registerOrganization request that checks its organization name while
\* an organization that is not tombstoned holds that name is answered 409
\* conflict, and it has created and creates no Organization, Department or
\* User.
NameConflictRejected ==
  [][\A p \in Requests :
       (/\ last.req[p].handler = "registerOrganization"
        /\ last.req[p].pc = "checkName"
        /\ last'.req[p].pc # "checkName"
        /\ ActiveNamed(docs, last.req[p].body.organizationName) # {}) =>
         /\ last'.req[p].pc = "done"
         /\ last'.req[p].status = 409
         /\ CreatedBy(p) = {}
         /\ docs' = docs]_vars

\* a registration under the name of active organization o1 was answered 409
\* and left the store with the two organizations it found
AcmeRegistrationRejected ==
  \E p \in Requests :
    /\ last.req[p].handler = "registerOrganization"
    /\ last.req[p].body.organizationName = "acme"
    /\ last.req[p].pc = "done"
    /\ last.req[p].status = 409
    /\ last.req[p].message =
         "Organization name already exists. Please choose a different name."
    /\ "o1" \in ActiveNamed(docs, "acme")
    /\ DOMAIN docs = {"o1", "o2"}

\* C22: a registerOrganization request creates its Department only after its
\* Organization and its User only after its Department, and when it is
\* answered 201 the three are stored, the Department is of the Organization,
\* the User is a SuperAdmin of both, and createdBy of the Organization and of
\* the Department is that User.
RegistrationSequence ==
  \A p \in Requests :
    LET r == last.req[p]
    IN r.handler = "registerOrganization" =>
         /\ r.user # Null => r.department # Null
         /\ r.department # Null => r.organization # Null
         /\ (r.pc = "done" /\ r.status = 201) =>
              /\ {r.organization, r.department, r.user} \subseteq DOMAIN docs
              /\ ModelOf(r.organization) = "Organization"
              /\ ModelOf(r.department) = "Department"
              /\ ModelOf(r.user) = "User"
              /\ Field(r.department, "organization") = r.organization
              /\ Field(r.user, "organization") = r.organization
              /\ Field(r.user, "department") = r.department
              /\ RoleOf[r.user] = "SuperAdmin"
              /\ docs[r.organization].createdBy = r.user
              /\ docs[r.department].createdBy = r.user

\* request 1 registered initech: o3, d5 and u5 are stored and u5 created both
InitechRegistered ==
  /\ last.req[1].handler = "registerOrganization"
  /\ last.req[1].pc = "done"
  /\ last.req[1].status = 201
  /\ last.req[1].body.organizationName = "initech"
  /\ {"o3", "d5", "u5"} \subseteq DOMAIN docs
  /\ docs["o3"].createdBy = "u5"
  /\ docs["d5"].createdBy = "u5"

\* C30: whatever the interleaving of two registerOrganization or
\* createOrganization requests, no two organizations that are not tombstoned
\* hold the same name.
UniqueOrganizationNames ==
  \A a, b \in DOMAIN docs :
    (/\ a # b
     /\ ModelOf(a) = "Organization" /\ ModelOf(b) = "Organization"
     /\ ~Tombstoned(docs, a) /\ ~Tombstoned(docs, b)) =>
      docs[a].name # docs[b].name

\* C30 as amended: a request whose name check runs after the other request
\* created its organization under that name is answered 409 and creates
\* nothing, so two organizations that are not tombstoned hold the same name
\* only when they are the two the requests created, each name check having
\* run before the other's create.
DuplicatesOnlyFromOverlap ==
  [][/\ \A p \in Requests : \A q \in Requests \ {p} :
          (/\ last.req[p].pc = "checkName"
           /\ last'.req[p].pc # "checkName"
           /\ last.req[q].organization
                 \in ActiveNamed(docs, last.req[p].body.organizationName)) =>
            /\ last'.req[p].pc = "done"
            /\ last'.req[p].status = 409
            /\ last'.req[p].organization = Null
            /\ docs' = docs
     /\ \A a, b \in DOMAIN docs' :
          (a # b /\ b \in ActiveNamed(docs', docs'[a].name)
             /\ a \in ActiveNamed(docs', docs'[a].name)) =>
            {a, b} = {OrganizationIdFor[p] : p \in Requests}]_vars

\* request 1 created initech as o3; request 2, checking the name afterwards,
\* was answered 409 and no second organization was stored
SecondRequestRejected ==
  /\ last.req[1].status = 201
  /\ last.req[1].organization = "o3"
  /\ last.req[2].status = 409
  /\ last.req[2].body.organizationName = "initech"
  /\ last.req[2].message =
       "Organization name already exists. Please choose a different name."
  /\ ActiveNamed(docs, "initech") = {"o3"}
  /\ "o4" \notin DOMAIN docs

----------------------------------------------------------------------------
(* Sessions: login, logout and refreshToken of src/unnamed/part_002, the
   tokens of src/backend/utils/jwtUtils.js *)

\* a signed token: jwt.sign puts the time of signing in the payload
Token(type, userId, iat) == [type |-> type, userId |-> userId, iat |-> iat]

\* req.cookies without the cookie
NoToken == Token("none", Null, 0)

\* what a handler answered: the HTTP status, success of the body, the message,
\* the user the tokens were made for, the cookies set and the cookies cleared
Reply(status, success, message, user, cookies, cleared) ==
  [status |-> status, success |-> success, message |-> message,
   user |-> user, cookies |-> cookies, cleared |-> cleared]

\* populate with every reference taken as found
populatesAlways(store, userId, path) == TRUE

\* .populate(path): the referenced document is read by a find behind
\* excludeDeleted; FALSE when the path is left null
populates(store, userId, path) ==
  find(store, IF path = "organization" THEN "Organization" ELSE "Department",
       ("_id" :> Field(userId, path)), FALSE) # {}

\* User.authenticate(email, password, organizationId): the user, or none
userAuthenticate(store, email, passwordValid, organizationId) ==
  LET found == find(store, "User",
                    ("email" :> toLowerCase(email))
                      @@ ("organization" :> organizationId), FALSE)
  IN IF passwordValid THEN found ELSE {}

\* login from "Ensure user object has populated organization and department"
\* on: the re-populate, the final validation, the tokens and the cookies
loginAs(store, user) ==
  IF ~populates(store, user, "organization") \/ ~populates(store, user, "department")
    THEN IF find(store, "User", ("_id" :> user), FALSE) = {}
           THEN Reply(404, FALSE, "User not found.", Null, {}, {})
           ELSE Reply(500, FALSE, "User organization or department not found.",
                      Null, {}, {})
  ELSE IF Load(store, user, FALSE).isDeleted
    THEN Reply(401, FALSE, "Account is deactivated.", Null, {}, {})
    ELSE Reply(200, TRUE, "Login successful", user,
               {"accessToken", "refreshToken"}, {})

\* login; passwordValid is what comparePassword resolves to
login(store, email, passwordValid, organizationId) ==
  IF organizationId # Null
    THEN LET found == userAuthenticate(store, email, passwordValid, organizationId)
         IN IF found = {}
              THEN Reply(401, FALSE, "Invalid email or password.", Null, {}, {})
              ELSE loginAs(store, CHOOSE u \in found : TRUE)
    ELSE LET users == find(store, "User",
                           ("email" :> toLowerCase(email))
                             @@ ("isDeleted" :> "ne_true"), FALSE)
             customerUsers ==
               {u \in users :
                  /\ populates(store, u, "organization")
                  /\ Field(u, "organization") # PLATFORM_ORGANIZATION_ID}
         IN IF customerUsers = {}
              THEN Reply(401, FALSE, "Invalid email or password.", Null, {}, {})
            ELSE IF Cardinality(customerUsers) > 1
              THEN Reply(200, FALSE,
                         "Multiple organizations found. Please select one.",
                         Null, {}, {})
            ELSE IF ~passwordValid
              THEN Reply(401, FALSE, "Invalid email or password.", Null, {}, {})
              ELSE loginAs(store, CHOOSE u \in customerUsers : TRUE)

\* optionalAuth: req.user, or Null when the request goes on without one
optionalAuth(store, accessToken) ==
  IF accessToken = NoToken THEN Null
  ELSE IF authenticate(store, accessToken.userId).ok
    THEN accessToken.userId
    ELSE Null

\* logout; failed: req.user.updateStatus("offline") rejects
logout(reqUser, failed) ==
  IF reqUser # Null /\ failed
    THEN Reply(200, TRUE, "Logout completed", Null, {},
               {"accessToken", "refreshToken"})
    ELSE Reply(200, TRUE, "Logout successful", Null, {},
               {"accessToken", "refreshToken"})

\* refreshToken with refreshAccessToken: reading _id of a reference that did
\* not populate throws, which the catch block answers
refreshToken(store, refreshTokenFromCookie) ==
  IF refreshTokenFromCookie = NoToken
    THEN Reply(401, FALSE, "Refresh token not found. Please log in again.",
               Null, {}, {})
  ELSE
    LET userId == refreshTokenFromCookie.userId
    IN IF find(store, "User", ("_id" :> userId), FALSE) = {}
         THEN Reply(401, FALSE, "User not found", Null, {}, {})
       ELSE IF ~populates(store, userId, "organization")
               \/ ~populates(store, userId, "department")
         THEN Reply(401, FALSE, "Token refresh failed. Please log in again.",
                    Null, {}, {})
       ELSE IF Load(store, userId, FALSE).isDeleted
         THEN Reply(401, FALSE, "User account is deactivated.", Null, {}, {})
         ELSE Reply(200, TRUE, "Token refreshed successfully", userId,
                    {"accessToken"}, {})

----------------------------------------------------------------------------
(* Login and refresh over the lifecycle of the users, their organizations and
   their departments *)

\* POST /api/auth/login
Login(email, passwordValid, organizationId) ==
  /\ \E res \in {login(docs, email, passwordValid, organizationId)} :
       last' = [op |-> "login", email |-> email,
                organizationId |-> organizationId, holder |-> Null] @@ res
  /\ UNCHANGED <<docs, now>>

\* POST /api/auth/refresh with the refresh token issued to holder
Refresh(holder) ==
  /\ \E res \in {refreshToken(docs, Token("refresh", holder, now))} :
       last' = [op |-> "refresh", email |-> docs[holder].email,
                organizationId |-> Null, holder |-> holder] @@ res
  /\ UNCHANGED <<docs, now>>

LoginDocs == {"o0", "d0", "u0", "o1", "d1", "u1", "o2", "d3", "u3"}

\* the records of the customer organizations
CustomerDocs == {"o1", "d1", "u1", "o2", "d3", "u3"}

LoginEmails == {"Ann@acme", "cy@globex", "root@platform"}

\* u3 of organization o2 has an address of its own, or the address u1 has in
\* organization o1
InitLogin ==
  /\ \E email \in {"cy@globex", "ann@acme"} :
       docs = [InitDocs(LoginDocs) EXCEPT !["u3"].email = email]
  /\ now = 1
  /\ last = [op |-> "init"]

NextLogin ==
  \E email \in LoginEmails, passwordValid \in BOOLEAN,
     organizationId \in {Null, "o1", "o2"} :
    Login(email, passwordValid, organizationId)

NextRefresh == \E holder \in IdsOf("User") \cap DOMAIN docs : Refresh(holder)

NextCustomerSoftDeleteById ==
  \E d \in CustomerDocs, deletedBy \in ActorIds : SoftDeleteById(d, deletedBy)

NextCustomerRestoreById == \E d \in CustomerDocs : RestoreById(d)

NextSession ==
  \/ NextLogin
  \/ NextRefresh
  \/ NextCustomerSoftDeleteById
  \/ NextCustomerRestoreById

SpecLogin == InitLogin /\ [][NextSession]_vars

\* the stored users a login or refresh request is for: the holder of the
\* refresh token, the users with the address in the organization of the
\* request, or with the address in any organization
Accounts(l) ==
  IF l.op = "refresh" THEN {l.holder}
  ELSE {u \in DOMAIN docs :
          /\ ModelOf(u) = "User"
          /\ docs[u].email = toLowerCase(l.email)
          /\ l.organizationId # Null =>
               Field(u, "organization") = l.organizationId}

\* the accounts of a request that the email-only search of login keeps: not
\* tombstoned, in a customer organization that is not tombstoned
Selectable(l) ==
  {u \in Accounts(l) :
     /\ ~Tombstoned(docs, u)
     /\ ~Tombstoned(docs, Field(u, "organization"))
     /\ Field(u, "organization") # PLATFORM_ORGANIZATION_ID}

----------------------------------------------------------------------------
(* Logout: the tokens a user holds from earlier logins and refreshes, the
   logout request, and the later use of those tokens *)

\* the user of the sessions
SessionUser == "u1"

\* jwt.verify: the signature is the server's and the type is the one asked
\* for; expiresIn (15m, 7d) lies beyond the times considered
verifyToken(issued, token, type) == token \in issued /\ token.type = type

\* last after a request: the tokens signed so far, those among them that were
\* issued to a user before a logout of that user, and the answer
SessionState(op, issued, loggedOut, token, accepted, res) ==
  [op |-> op, issued |-> issued, loggedOut |-> loggedOut, token |-> token,
   accepted |-> accepted, cleared |-> res.cleared, cookies |-> res.cookies,
   status |-> res.status, message |-> res.message]

\* POST /api/auth/login with the address of the user
SessionLogin(passwordValid, organizationId) ==
  /\ \E res \in {login(docs, docs[SessionUser].email, passwordValid,
                        organizationId)} :
       LET new == IF res.cookies = {} THEN {}
                  ELSE {Token("access", res.user, now),
                        Token("refresh", res.user, now)}
       IN last' = SessionState("login", last.issued \cup new,
                               last.loggedOut \ new, NoToken,
                               res.cookies # {}, res)
  /\ UNCHANGED <<docs, now>>

\* DELETE /api/auth/logout carrying an access token, or none; failed: the
\* status update rejects
SessionLogout(accessToken, failed) ==
  /\ verifyToken(last.issued \cup {NoToken}, accessToken, accessToken.type)
  /\ \E reqUser \in {optionalAuth(docs, accessToken)} :
       last' = SessionState("logout", last.issued,
                            last.loggedOut
                              \cup {t \in last.issued : t.userId = reqUser},
                            accessToken, reqUser # Null,
                            logout(reqUser, failed))
  /\ UNCHANGED <<docs, now>>

\* a request through authenticate carrying an access token signed earlier
SessionAuthenticate(accessToken) ==
  /\ verifyToken(last.issued, accessToken, "access")
  /\ \E res \in {authenticate(docs, accessToken.userId)} :
       last' = SessionState("authenticate", last.issued, last.loggedOut,
                            accessToken, res.ok,
                            Reply(IF res.ok THEN 200 ELSE 401, res.ok,
                                  res.message, Null, {}, {}))
  /\ UNCHANGED <<docs, now>>

\* POST /api/auth/refresh carrying a refresh token signed earlier
SessionRefresh(refreshTokenFromCookie) ==
  /\ verifyToken(last.issued, refreshTokenFromCookie, "refresh")
  /\ \E res \in {refreshToken(docs, refreshTokenFromCookie)} :
       LET new == IF res.cookies = {} THEN {}
                  ELSE {Token("access", res.user, now)}
       IN last' = SessionState("refresh", last.issued \cup new,
                               last.loggedOut \ new, refreshTokenFromCookie,
                               res.cookies # {}, res)
  /\ UNCHANGED <<docs, now>>

\* the clock advances between two requests
SessionTick ==
  /\ now < MaxTime
  /\ now' = now + 1
  /\ UNCHANGED <<docs, last>>

SessionTokens ==
  {Token(type, SessionUser, iat) :
     type \in {"access", "refresh"}, iat \in 1..MaxTime}

InitLogout ==
  /\ docs = InitDocs({"o1", "d1", SessionUser})
  /\ now = 1
  /\ last = SessionState("init", {}, {}, NoToken, FALSE,
                         Reply(0, FALSE, "", Null, {}, {}))

NextSessionLogin ==
  \E passwordValid \in BOOLEAN, organizationId \in {Null, "o1"} :
    SessionLogin(passwordValid, organizationId)

NextSessionLogout ==
  \E accessToken \in SessionTokens \cup {NoToken}, failed \in BOOLEAN :
    SessionLogout(accessToken, failed)

NextSessionAuthenticate ==
  \E accessToken \in SessionTokens : SessionAuthenticate(accessToken)

NextSessionRefresh ==
  \E refreshTokenFromCookie \in SessionTokens :
    SessionRefresh(refreshTokenFromCookie)

NextLogout ==
  \/ NextSessionLogin
  \/ NextSessionLogout
  \/ NextSessionAuthenticate
  \/ NextSessionRefresh
  \/ SessionTick

SpecLogout == InitLogout /\ [][NextLogout]_vars

\* C23: every logout answers with both authentication cookies cleared, also
\* when the status update fails, and a token issued before a logout of its
\* user is accepted neither by authenticate nor by the refresh endpoint.
LogoutCleanup ==
  /\ last.op = "logout" =>
       last.cleared = {"accessToken", "refreshToken"}
  /\ (last.op \in {"authenticate", "refresh"} /\ last.token \in last.loggedOut) =>
       ~last.accepted

----------------------------------------------------------------------------
(* The restore route, soft delete without cascade, and restore without
   cascade *)

\* C24: POST /api/organizations/:organizationId/restore by the platform
\* SuperAdmin on a tombstoned customer organization whose name and email no
\* active organization holds is answered 200 and leaves the organization with
\* isDeleted false, deletedAt null and deletedBy null.
RestoreEndpoint ==
  [][(/\ last'.op = "restoreOrganization"
      /\ last'.handled
      /\ RoleOf[last'.actor] = "SuperAdmin"
      /\ Field(last'.actor, "organization") = PLATFORM_ORGANIZATION_ID
      /\ last'.organizationId # PLATFORM_ORGANIZATION_ID
      /\ last'.organizationId \in DOMAIN docs
      /\ docs[last'.organizationId].isDeleted
      /\ ~RestoreConflict(docs, last'.organizationId)) =>
       (/\ last'.status = 200
        /\ ~docs'[last'.organizationId].isDeleted
        /\ docs'[last'.organizationId].deletedAt = NullDate
        /\ docs'[last'.organizationId].deletedBy = Null)]_vars

\* C25: softDeleteMany and softDeleteById on a model with cascade edges
\* tombstone, for every document they tombstone, the children reached through
\* those edges.
BulkCascade ==
  [][last'.op \in {"softDeleteMany", "softDeleteById"} =>
       \A d \in DOMAIN docs :
         (~docs[d].isDeleted /\ docs'[d].isDeleted) =>
           \A c \in CascadeChildren(docs, d) : docs'[c].isDeleted]_vars

\* C27: in every reachable state every child on a cascade edge of a
\* tombstoned parent is tombstoned.
ParentChildConsistency ==
  \A p \in DOMAIN docs :
    docs[p].isDeleted => \A c \in CascadeChildren(docs, p) : docs[c].isDeleted

\* C28: restore and restoreById change nothing but isDeleted, deletedAt and
\* deletedBy of the record they are called on; every other record, its
\* tombstoned children included, is left as it was.
RestoreNotCascaded ==
  [][last'.op \in {"restore", "restoreById"} =>
       /\ DOMAIN docs' = DOMAIN docs
       /\ \A d \in DOMAIN docs \ {last'.id} : docs'[d] = docs[d]
       /\ \A path \in DOMAIN docs[last'.id]
                        \ {"isDeleted", "deletedAt", "deletedBy"} :
            docs'[last'.id][path] = docs[last'.id][path]]_vars

\* organization o1 was restored, and department d1 and user u1, tombstoned
\* together, are still tombstoned
ChildrenStayTombstoned ==
  /\ last.op \in {"restore", "restoreById"}
  /\ last.id = "o1"
  /\ ~docs["o1"].isDeleted
  /\ docs["d1"].isDeleted /\ docs["u1"].isDeleted
  /\ docs["d1"].deletedAt = docs["u1"].deletedAt

\* C29: the middleware of authorize calls next() whenever allowSelf is set
\* and req.params.id is the id of req.user, whatever the role, the action and
\* the resource; in every other case it calls next() exactly when
\* hasPermission grants.
AllowSelfBypass ==
  last.op = "authorize" =>
    IF last.allowSelf /\ last.id = last.user._id
      THEN last.next
      ELSE last.next <=> hasPermission(last.user, last.action, last.resource,
                                       last.target, last.resourceType)

\* a request of a user whose role is not in the matrix for its own id went
\* through a middleware built with allowSelf
SelfRequestWithoutRole ==
  /\ last.op = "authorize"
  /\ last.allowSelf
  /\ last.id = last.user._id
  /\ last.user.role \notin Roles
  /\ last.next

====
